---- MODULE Spec2Model ----
(***************************************************************************)
(* Model of the multi-server SMTP delivery subsystem of py-mcp-server-smtp *)
(* (src/smtp.py, src/server.py): the Failover Client                        *)
(* (MultiServerSMTPClient), the Delivery Orchestrator (EmailService) and    *)
(* the tool layer that drives them.  One logical task runs at a time; an   *)
(* operation is split at its network calls, so that time may pass between  *)
(* them.  SpecConc adds worker threads that run the reconfiguration         *)
(* operations under EmailService._config_lock beside that task.            *)
(***************************************************************************)
EXTENDS Integers, Sequences, FiniteSets, TLC

VARIABLES
    configs,          \* EmailService.configs
    primary_config,   \* EmailService.primary_config
    message_builder,  \* EmailService.message_builder (the config it is bound to)
    smtp_client,      \* EmailService.smtp_client (identity of the client object)
    clients,          \* the MultiServerSMTPClient objects, by identity
    connections,      \* SMTPClient objects holding an open, authenticated session
    now,              \* time.time(), whole seconds
    pc,               \* position of the running operation
    op,               \* operation in progress
    loc,              \* its local variables
    pre,              \* the call in progress or last made: its input and the
                      \* orchestrator's configuration when it was made
    oplog,            \* network calls made by the last operation
    result,           \* what the last completed operation returned
    sc,               \* one SMTPClient driven directly through its own interface
    sessions,         \* the transports that client has open at its server
    sclog,            \* what the last call on that client did on the wire
    scres,            \* how the last call on that client ended
    workers,          \* threads running reload_configuration or
                      \* reconnect_smtp_servers: position and local variables
    config_lock,      \* EmailService._config_lock (threading.RLock)
    helper            \* a direct call of one of the service's helper methods:
                      \* its name, its arguments and what it returned

pool == <<configs, primary_config, message_builder, smtp_client, clients,
          connections, now, pc, op, loc, pre, oplog, result>>

single == <<sc, sessions, sclog, scres>>

conc == <<workers, config_lock>>

vars == <<configs, primary_config, message_builder, smtp_client, clients,
          connections, now, pc, op, loc, pre, oplog, result,
          sc, sessions, sclog, scres, workers, config_lock, helper>>

----------------------------------------------------------------------------
(* Bounds *)

StartTime == 1000

MaxTime == 1602

MaxNewConfigs == 3

TickSteps == {299, 300, 301}

----------------------------------------------------------------------------
(* Configuration model: SMTPConfig *)

NoCfg == [name |-> "", host |-> "", port |-> 0, username |-> "", password |-> "",
          use_tls |-> FALSE, use_ssl |-> FALSE, timeout |-> 0, max_retries |-> 0,
          from_email |-> "", priority |-> 0]

Cfg(n, h, p, f) ==
    [name |-> n, host |-> h, port |-> 587, username |-> "user", password |-> "pw",
     use_tls |-> TRUE, use_ssl |-> FALSE, timeout |-> 30, max_retries |-> 3,
     from_email |-> f, priority |-> p]

CfgA    == Cfg("primary", "smtp.primary.com", 100, "sender@primary.com")
CfgB    == Cfg("backup", "smtp.backup.com", 50, "")
CfgBTie == Cfg("backup", "smtp.backup.com", 100, "")
CfgC    == Cfg("third", "smtp.third.com", 10, "sender@third.com")
CfgDupName == Cfg("primary", "smtp.other.com", 50, "")
CfgDupKey  == Cfg("alias", "smtp.primary.com", 50, "")
CfgBadPort == [Cfg("backup", "smtp.backup.com", 50, "") EXCEPT !.port = 0]
CfgNoPass  == [Cfg("backup", "smtp.backup.com", 50, "") EXCEPT !.password = ""]
CfgNoHost     == Cfg("nohost", "", 40, "")
CfgBlankHost  == Cfg("blankhost", " ", 40, "")
CfgNoUser     == [Cfg("nouser", "smtp.nouser.com", 40, "") EXCEPT !.username = ""]
CfgBlankUser  == [Cfg("blankuser", "smtp.blankuser.com", 40, "") EXCEPT !.username = " "]
CfgBlankPass  == [Cfg("blankpass", "smtp.blankpass.com", 40, "") EXCEPT !.password = " "]
CfgPortHigh   == [Cfg("porthigh", "smtp.porthigh.com", 40, "") EXCEPT !.port = 65536]
CfgNoTimeout  == [Cfg("notimeout", "smtp.notimeout.com", 40, "") EXCEPT !.timeout = 0]
CfgNegRetries == [Cfg("negretries", "smtp.negretries.com", 40, "")
                      EXCEPT !.max_retries = -1]
CfgTlsAndSsl  == [Cfg("tlsandssl", "smtp.tlsandssl.com", 40, "") EXCEPT !.use_ssl = TRUE]
CfgHostPort   == [Cfg("relay", "mail.example.com:25", 40, "")
                      EXCEPT !.port = 25, !.username = "relay"]
CfgColonUser  == [Cfg("submission", "mail.example.com", 40, "")
                      EXCEPT !.port = 25, !.username = "25:relay"]

(* The environment variables: numbered server definitions in declaration   *)
(* order, and the unsuffixed single-server definition (NoCfg when unset).   *)
EnvSources ==
    { [numbered |-> <<CfgA, CfgB>>,            single |-> NoCfg],
      [numbered |-> <<CfgB, CfgA>>,            single |-> NoCfg],
      [numbered |-> <<CfgA, CfgBTie>>,         single |-> NoCfg],
      [numbered |-> <<CfgC, CfgA, CfgB>>,      single |-> NoCfg],
      [numbered |-> <<CfgA, CfgDupName>>,      single |-> NoCfg],
      [numbered |-> <<CfgA, CfgDupKey>>,       single |-> NoCfg],
      [numbered |-> <<CfgA, CfgBadPort>>,      single |-> NoCfg],
      [numbered |-> <<CfgA, CfgNoPass, CfgC>>, single |-> NoCfg],
      [numbered |-> <<>>,                      single |-> CfgB],
      [numbered |-> <<>>,                      single |-> NoCfg] }

(* str.strip on the strings of this model: the only one with whitespace   *)
(* at its ends is the blank string                                          *)
strip(s) == IF s = " " THEN "" ELSE s

(* SMTPConfig.validate *)
validate(c) ==
    /\ c.host # "" /\ strip(c.host) # ""
    /\ 1 <= c.port /\ c.port <= 65535
    /\ c.username # "" /\ strip(c.username) # ""
    /\ c.password # ""
    /\ c.timeout > 0
    /\ c.max_retries >= 0
    /\ ~(c.use_tls /\ c.use_ssl)

(* The required variables are all set (an entry always carries a port,     *)
(* possibly an invalid one)                                                 *)
RequiredPresent(c) ==
    c.host # "" /\ c.username # "" /\ c.password # ""

(* configs.sort(key=priority, reverse=True): stable, highest first *)
RECURSIVE InsertByPriority(_, _)
InsertByPriority(c, s) ==
    IF s = <<>> THEN <<c>>
    ELSE IF Head(s).priority >= c.priority
         THEN <<Head(s)>> \o InsertByPriority(c, Tail(s))
         ELSE <<c>> \o s

RECURSIVE SortByPriority(_)
SortByPriority(s) ==
    IF s = <<>> THEN <<>>
    ELSE InsertByPriority(s[Len(s)], SortByPriority(SubSeq(s, 1, Len(s) - 1)))

(* The numbered definitions read before the first unset host or the first  *)
(* definition that fails to load.                                           *)
RECURSIVE LoadNumbered(_)
LoadNumbered(s) ==
    IF s = <<>> THEN <<>>
    ELSE IF Head(s).host = "" \/ ~RequiredPresent(Head(s)) THEN <<>>
         ELSE <<Head(s)>> \o LoadNumbered(Tail(s))

(* SMTPConfig.from_env_multi: the sorted list, or <<>> when it raises *)
from_env_multi(env) ==
    LET numbered == LoadNumbered(env.numbered) IN
    IF numbered # <<>> THEN SortByPriority(numbered)
    ELSE IF RequiredPresent(env.single) THEN <<env.single>>
         ELSE <<>>

(* load_smtp_configs: ok = FALSE when it raises ValueError *)
load_smtp_configs(env) ==
    LET cs == from_env_multi(env) IN
    IF cs = <<>> \/ \E i \in 1..Len(cs) : ~validate(cs[i])
        THEN [ok |-> FALSE, configs |-> <<>>]
        ELSE [ok |-> TRUE, configs |-> cs]

(* MultiServerSMTPClient._get_server_key *)
_get_server_key(c) == c.host \o ":" \o ToString(c.port) \o ":" \o c.username

----------------------------------------------------------------------------
(* Failover Client: MultiServerSMTPClient *)

failure_backoff_time == 300

(* MultiServerSMTPClient.__init__ *)
NewClient(cs) ==
    [configs |-> cs, current_config |-> NoCfg, failed_servers |-> {},
     last_failure_time |-> <<>>]

(* dict.get(key, 0) and dict.pop(key, None) on last_failure_time, a        *)
(* function from server keys to times                                       *)
FailureTimeOf(c, k) ==
    IF k \in DOMAIN c.last_failure_time THEN c.last_failure_time[k] ELSE 0

(* Variant: the timestamp is left behind *)
DropRecord_KeepingTime(c, k) == [c EXCEPT !.failed_servers = @ \ {k}]

(* Variant: a failure leaves no record *)
MarkFailed_Forgets(c, k, t) == c

DropRecord(c, k) ==
    [c EXCEPT !.failed_servers = @ \ {k},
              !.last_failure_time =
                  [x \in (DOMAIN c.last_failure_time) \ {k} |-> c.last_failure_time[x]]]

MarkFailed(c, k, t) ==
    [c EXCEPT !.failed_servers = @ \cup {k},
              !.last_failure_time =
                  [x \in (DOMAIN c.last_failure_time) \cup {k} |->
                      IF x = k THEN t ELSE c.last_failure_time[x]]]

(* Variant: the window is closed at its end (<= instead of <) *)
InBackoff_Inclusive(c, k, t) ==
    k \in c.failed_servers /\ t - FailureTimeOf(c, k) <= failure_backoff_time

InBackoff(c, k, t) ==
    k \in c.failed_servers /\ t - FailureTimeOf(c, k) < failure_backoff_time

(* Variant: the list is built back to front *)
RECURSIVE AvailableFrom_Reversed(_, _, _)
AvailableFrom_Reversed(c, i, t) ==
    IF i > Len(c.configs) THEN [client |-> c, available |-> <<>>]
    ELSE LET k == _get_server_key(c.configs[i]) IN
         IF InBackoff(c, k, t)
         THEN AvailableFrom_Reversed(c, i + 1, t)
         ELSE LET rest == AvailableFrom_Reversed(IF k \in c.failed_servers
                                                    THEN DropRecord(c, k) ELSE c,
                                                 i + 1, t)
              IN [client |-> rest.client,
                  available |-> rest.available \o <<c.configs[i]>>]

(* _get_available_servers walks the list once; it returns the available    *)
(* servers and, as a side effect, drops the records whose backoff expired. *)
RECURSIVE AvailableFrom(_, _, _)
AvailableFrom(c, i, t) ==
    IF i > Len(c.configs) THEN [client |-> c, available |-> <<>>]
    ELSE LET k == _get_server_key(c.configs[i]) IN
         IF InBackoff(c, k, t)
         THEN AvailableFrom(c, i + 1, t)
         ELSE LET rest == AvailableFrom(IF k \in c.failed_servers
                                           THEN DropRecord(c, k) ELSE c, i + 1, t)
              IN [client |-> rest.client,
                  available |-> <<c.configs[i]>> \o rest.available]

_get_available_servers(c, t) == AvailableFrom(c, 1, t)

(* _reset_failed_servers_if_needed *)
_reset_failed_servers_if_needed(c, t) ==
    LET old_failures == {k \in DOMAIN c.last_failure_time :
                            t - c.last_failure_time[k] > failure_backoff_time * 2}
    IN IF Cardinality(old_failures) = Len(c.configs)
       THEN [c EXCEPT !.failed_servers = {}, !.last_failure_time = <<>>]
       ELSE c

(* get_server_status: the per-server entries are built first; the          *)
(* available count is then taken by calling _get_available_servers, which  *)
(* drops expired records, and the failed count is read after that call.    *)
StatusEntry(c, cfg, t) ==
    LET k == _get_server_key(cfg)
        is_failed == k \in c.failed_servers
        has_time == k \in DOMAIN c.last_failure_time /\ c.last_failure_time[k] # 0
    IN [name |-> cfg.name, priority |-> cfg.priority,
        last_failure |-> IF has_time THEN c.last_failure_time[k] ELSE 0,
        is_current |-> (c.current_config # NoCfg
                        /\ _get_server_key(c.current_config) = k),
        is_failed |-> is_failed,
        is_available |-> (~is_failed
                          \/ (has_time /\ t - c.last_failure_time[k] >= failure_backoff_time))]

get_server_status(c, t) ==
    LET av == _get_available_servers(c, t) IN
    [client |-> av.client,
     status |-> [total_servers |-> Len(c.configs),
                 available_servers |-> Len(av.available),
                 failed_servers |-> Cardinality(av.client.failed_servers),
                 current_server |-> c.current_config.name,
                 servers |-> [i \in 1..Len(c.configs) |-> StatusEntry(c, c.configs[i], t)]]]

----------------------------------------------------------------------------
(* Send requests, as the tool layer receives them *)

MaxRecipients == 100
MaxSubjectLength == 998
MaxBodySize == 10 * 1024 * 1024

Req(to_ok, from, tvars, refs, syntax_ok, nrcpt, slen, blen) ==
    [to_valid |-> to_ok, from_email |-> from, template_vars |-> tvars,
     referenced_vars |-> refs, template_syntax_ok |-> syntax_ok,
     recipients |-> nrcpt, subject_len |-> slen, body_len |-> blen]

Requests ==
    { Req(TRUE,  "me@test.com", {}, {}, TRUE, 1, 10, 100),
      Req(TRUE,  "", {}, {}, TRUE, 1, 10, 100),
      Req(FALSE, "", {}, {}, TRUE, 1, 1, 1),
      Req(TRUE,  "me@test.com", {"name"}, {"name", "other"}, TRUE, 1, 10, 100),
      Req(TRUE,  "me@test.com", {"name"}, {"name"}, FALSE, 1, 10, 100),
      Req(TRUE,  "me@test.com", {}, {}, TRUE, 101, 10, 100),
      Req(TRUE,  "me@test.com", {}, {}, TRUE, 100, 999, 100),
      Req(TRUE,  "me@test.com", {}, {}, TRUE, 1, 998, MaxBodySize + 1) }

(* EmailRequest.__post_init__: the request object can be constructed *)
RequestConstructs(req) == req.to_valid /\ req.subject_len > 0

(* One entry of the errors list; the message of a missing-variables entry  *)
(* names the variables                                                      *)
ValidationError(kind, variables) == [kind |-> kind, variables |-> variables]

(* Variant: the recipient count is not limited *)
validate_email_request_NoRecipientLimit(req, primary) ==
    (IF req.from_email = "" /\ primary.from_email = ""
        THEN <<ValidationError("no_from_email", {})>> ELSE <<>>)
    \o (IF req.template_vars # {} /\ req.referenced_vars \ req.template_vars # {}
           THEN <<ValidationError("missing_template_variables",
                                  req.referenced_vars \ req.template_vars)>>
           ELSE <<>>)
    \o (IF req.recipients = 0 THEN <<ValidationError("no_recipients", {})>> ELSE <<>>)
    \o (IF req.subject_len > MaxSubjectLength
           THEN <<ValidationError("subject_too_long", {})>> ELSE <<>>)
    \o (IF req.body_len > MaxBodySize
           THEN <<ValidationError("body_too_large", {})>> ELSE <<>>)

(* Variant: the set difference is taken the wrong way round *)
validate_email_request_ProvidedMinusRequired(req, primary) ==
    (IF req.from_email = "" /\ primary.from_email = ""
        THEN <<ValidationError("no_from_email", {})>> ELSE <<>>)
    \o (IF req.template_vars # {} /\ req.template_vars \ req.referenced_vars # {}
           THEN <<ValidationError("missing_template_variables",
                                  req.template_vars \ req.referenced_vars)>>
           ELSE <<>>)
    \o (IF req.recipients > MaxRecipients
           THEN <<ValidationError("too_many_recipients", {})>> ELSE <<>>)
    \o (IF req.recipients = 0 THEN <<ValidationError("no_recipients", {})>> ELSE <<>>)
    \o (IF req.subject_len > MaxSubjectLength
           THEN <<ValidationError("subject_too_long", {})>> ELSE <<>>)
    \o (IF req.body_len > MaxBodySize
           THEN <<ValidationError("body_too_large", {})>> ELSE <<>>)

(* EmailService.validate_email_request: the list of errors, in order *)
validate_email_request(req, primary) ==
    (IF req.from_email = "" /\ primary.from_email = ""
        THEN <<ValidationError("no_from_email", {})>> ELSE <<>>)
    \o (IF req.template_vars # {} /\ req.referenced_vars \ req.template_vars # {}
           THEN <<ValidationError("missing_template_variables",
                                  req.referenced_vars \ req.template_vars)>>
           ELSE <<>>)
    \o (IF req.recipients > MaxRecipients
           THEN <<ValidationError("too_many_recipients", {})>> ELSE <<>>)
    \o (IF req.recipients = 0 THEN <<ValidationError("no_recipients", {})>> ELSE <<>>)
    \o (IF req.subject_len > MaxSubjectLength
           THEN <<ValidationError("subject_too_long", {})>> ELSE <<>>)
    \o (IF req.body_len > MaxBodySize
           THEN <<ValidationError("body_too_large", {})>> ELSE <<>>)

(* EmailMessageBuilder.build_message succeeds: templates process and a     *)
(* From address exists on the request or on the builder's config.          *)
build_message_ok(req, builder) ==
    /\ (req.template_vars # {} =>
            req.template_syntax_ok /\ req.referenced_vars \subseteq req.template_vars)
    /\ (req.from_email # "" \/ builder.from_email # "")

----------------------------------------------------------------------------
(* Results handed back to the caller *)

NoStatus == [total_servers |-> 0, available_servers |-> 0, failed_servers |-> 0,
             current_server |-> "", servers |-> <<>>]

NoChanges == [total_changes |-> 0, servers_removed |-> {}, servers_added |-> {},
              servers_modified |-> <<>>, servers_unchanged |-> <<>>]

NoResult ==
    [op |-> "none", raised |-> FALSE, success |-> FALSE, message_id |-> "",
     error |-> "", step |-> "", reached_service |-> FALSE, error_type |-> "", validation_errors |-> <<>>,
     smtp_server |-> "", has_status |-> FALSE, server_status |-> NoStatus,
     rollback_performed |-> FALSE, changes |-> NoChanges,
     multi_server_success |-> FALSE]

(* EmailResponse.__post_init__ accepts the response *)
EmailResponseOk(r) ==
    IF r.success THEN r.message_id # "" ELSE r.error # ""

NoEnv == [numbered |-> <<>>, single |-> NoCfg]

NoReq == Req(FALSE, "", {}, {}, TRUE, 0, 0, 0)

Call(name, env, req, server_name) ==
    [op |-> name, env |-> env, req |-> req, server_name |-> server_name,
     configs |-> configs, primary_config |-> primary_config,
     message_builder |-> message_builder, smtp_client |-> smtp_client,
     current |-> clients[smtp_client].current_config,
     failed_servers |-> {}]

NoLoc == [cm |-> 0, available |-> <<>>, idx |-> 0, exc |-> "", message_id |-> "",
          reply |-> "",
          overall_success |-> FALSE, new_configs |-> <<>>, target |-> "",
          original_configs |-> <<>>, original_primary_config |-> NoCfg,
          original_smtp_client |-> 0, original_message_builder |-> NoCfg]

----------------------------------------------------------------------------
(* SMTPClient: the connection to one server *)

NewSMTPClient(cfg) ==
    [config |-> cfg, connection |-> 0,
     _is_connected |-> FALSE, _is_authenticated |-> FALSE]

NoCall == [op |-> "none", returned |-> FALSE, raised |-> "", script |-> <<>>]

Wire(kind, ok, seconds) == [kind |-> kind, ok |-> ok, seconds |-> seconds]

(* What one pass of the connect loop can meet.  Reaching the outer except  *)
(* clause for SMTPConnectError, SMTPServerDisconnected, OSError, SSLError   *)
(* (retried): the transport does not open, STARTTLS fails, login times out *)
(* (an OSError that is no SMTPException).  Caught by the except clauses    *)
(* around login: login is refused (SMTPAuthenticationError), the server    *)
(* closes the connection during login (SMTPServerDisconnected, an          *)
(* SMTPException), login fails otherwise.  Or something that is no         *)
(* transport error is raised.                                               *)
TransportErrors == {"open_failed", "tls_failed", "login_timeout"}

AttemptOutcomes ==
    TransportErrors \cup {"ok", "auth_failed", "login_disconnected", "login_error",
                          "unexpected"}

(* The outcomes of the passes of one connect call, in order *)
ConnectScripts(cfg) ==
    {s \in UNION {[1..n -> AttemptOutcomes] : n \in 1..(cfg.max_retries + 1)} :
        /\ \A i \in 1..(Len(s) - 1) : s[i] \in TransportErrors
        /\ Len(s) <= cfg.max_retries => s[Len(s)] \notin TransportErrors
        /\ \A i \in 1..Len(s) : s[i] = "tls_failed" => cfg.use_tls /\ ~cfg.use_ssl}

FreshSession(open) == CHOOSE i \in 1..(Cardinality(open) + 1) : i \notin open

(* Variant: the state is cleared after quit, not in a finally clause, and  *)
(* the error of a failed close is not caught                                *)
SMTPClient_disconnect_NoFinally(c, open, quit_ok, close_ok) ==
    IF c.connection = 0
    THEN [client |-> c, sessions |-> open, log |-> <<>>, raised |-> ""]
    ELSE IF quit_ok
    THEN [client |-> [c EXCEPT !.connection = 0, !._is_connected = FALSE,
                               !._is_authenticated = FALSE],
          sessions |-> open \ {c.connection},
          log |-> <<Wire("quit", TRUE, 0)>>, raised |-> ""]
    ELSE [client |-> c,
          sessions |-> IF close_ok THEN open \ {c.connection} ELSE open,
          log |-> <<Wire("quit", FALSE, 0), Wire("close", close_ok, 0)>>,
          raised |-> IF close_ok THEN "" ELSE "Exception"]

(* Variant: the finally clause forgets the connected flag *)
SMTPClient_disconnect_KeepsConnectedFlag(c, open, quit_ok, close_ok) ==
    IF c.connection = 0
    THEN [client |-> c, sessions |-> open, log |-> <<>>, raised |-> ""]
    ELSE [client |-> [c EXCEPT !.connection = 0, !._is_authenticated = FALSE],
          sessions |-> open \ {c.connection},
          log |-> IF quit_ok THEN <<Wire("quit", TRUE, 0)>>
                  ELSE <<Wire("quit", FALSE, 0), Wire("close", close_ok, 0)>>,
          raised |-> ""]

(* SMTPClient.disconnect: quit, close when quit fails, clear the state in  *)
(* the finally clause; both except clauses swallow the error                *)
SMTPClient_disconnect(c, open, quit_ok, close_ok) ==
    IF c.connection = 0
    THEN [client |-> c, sessions |-> open, log |-> <<>>, raised |-> ""]
    ELSE [client |-> [c EXCEPT !.connection = 0, !._is_connected = FALSE,
                               !._is_authenticated = FALSE],
          sessions |-> open \ {c.connection},
          log |-> IF quit_ok THEN <<Wire("quit", TRUE, 0)>>
                  ELSE <<Wire("quit", FALSE, 0), Wire("close", close_ok, 0)>>,
          raised |-> ""]

Pow2(n) == IF n = 0 THEN 1 ELSE IF n = 1 THEN 2 ELSE IF n = 2 THEN 4
           ELSE IF n = 3 THEN 8 ELSE 16

(* The while loop of SMTPClient.connect from pass retry_count on *)
RECURSIVE ConnectLoop(_, _, _, _, _, _)
ConnectLoop(c, open, log, retry_count, script, quit_ok) ==
    LET o == script[retry_count + 1]
        id == FreshSession(open)
        opened == [c EXCEPT !.connection = id]
        tls == IF c.config.use_tls /\ ~c.config.use_ssl
                  THEN <<Wire("starttls", o # "tls_failed", 0)>> ELSE <<>>
    IN
    IF o = "ok"
    THEN [client |-> [opened EXCEPT !._is_connected = TRUE, !._is_authenticated = TRUE],
          sessions |-> open \cup {id},
          log |-> log \o <<Wire("open", TRUE, 0)>> \o tls \o <<Wire("login", TRUE, 0)>>,
          returned |-> TRUE, raised |-> ""]
    ELSE IF o \in {"auth_failed", "login_disconnected", "login_error"}
    THEN LET d == SMTPClient_disconnect([opened EXCEPT !._is_connected = TRUE],
                                        open \cup {id}, quit_ok, TRUE)
         IN [client |-> d.client, sessions |-> d.sessions,
             log |-> log \o <<Wire("open", TRUE, 0)>> \o tls
                         \o <<Wire("login", FALSE, 0)>> \o d.log,
             returned |-> FALSE, raised |-> "ConnectionError"]
    ELSE IF o = "unexpected"
    THEN [client |-> c, sessions |-> open,
          log |-> log \o <<Wire("open", FALSE, 0)>>,
          returned |-> FALSE, raised |-> "ConnectionError"]
    ELSE LET d == IF o = "tls_failed"
                     THEN SMTPClient_disconnect(opened, open \cup {id}, quit_ok, TRUE)
                     ELSE IF o = "login_timeout"
                     THEN SMTPClient_disconnect([opened EXCEPT !._is_connected = TRUE],
                                                open \cup {id}, quit_ok, TRUE)
                     ELSE [client |-> c, sessions |-> open, log |-> <<>>]
             tried == log \o (IF o = "tls_failed"
                                 THEN <<Wire("open", TRUE, 0)>> \o tls
                                 ELSE IF o = "login_timeout"
                                 THEN <<Wire("open", TRUE, 0)>> \o tls
                                          \o <<Wire("login", FALSE, 0)>>
                                 ELSE <<Wire("open", FALSE, 0)>>) \o d.log
         IN IF retry_count >= c.config.max_retries
            THEN [client |-> d.client, sessions |-> d.sessions, log |-> tried,
                  returned |-> FALSE, raised |-> "ConnectionError"]
            ELSE ConnectLoop(d.client, d.sessions,
                             tried \o <<Wire("sleep", TRUE, Pow2(retry_count))>>,
                             retry_count + 1, script, quit_ok)

(* Variant: connect does not look at the state it is in *)
SMTPClient_connect_Always(c, open, script, quit_ok) ==
    LET d == SMTPClient_disconnect(c, open, quit_ok, TRUE)
    IN ConnectLoop(d.client, d.sessions, d.log, 0, script, quit_ok)

(* Variant: a refused login is tried once more while attempts remain *)
SMTPClient_connect_RetriesAuth(c, open, script, quit_ok) ==
    IF c._is_connected /\ c._is_authenticated
    THEN [client |-> c, sessions |-> open, log |-> <<>>,
          returned |-> TRUE, raised |-> ""]
    ELSE LET d == SMTPClient_disconnect(c, open, quit_ok, TRUE)
             r == ConnectLoop(d.client, d.sessions, d.log, 0, script, quit_ok)
         IN IF script[Len(script)] = "auth_failed" /\ Len(script) <= c.config.max_retries
            THEN [r EXCEPT !.log = @ \o <<Wire("sleep", TRUE, Pow2(Len(script) - 1)),
                                          Wire("open", TRUE, 0),
                                          Wire("login", FALSE, 0),
                                          Wire("quit", TRUE, 0)>>]
            ELSE r

(* SMTPClient.connect *)
SMTPClient_connect(c, open, script, quit_ok) ==
    IF c._is_connected /\ c._is_authenticated
    THEN [client |-> c, sessions |-> open, log |-> <<>>,
          returned |-> TRUE, raised |-> ""]
    ELSE LET d == SMTPClient_disconnect(c, open, quit_ok, TRUE)
         IN ConnectLoop(d.client, d.sessions, d.log, 0, script, quit_ok)

(* What the server answers to the message: every recipient accepted, some  *)
(* refused (smtplib returns them), all refused (smtplib raises)            *)
ServerReplies == {"accepted", "some_refused", "all_refused"}

AcceptedSomeone(reply) == reply \in {"accepted", "some_refused"}

(* Variant: the refused recipients returned by smtplib are not looked at *)
SMTPClient_send_message_IgnoringRefused(c, reply) ==
    IF ~c._is_connected \/ ~c._is_authenticated \/ c.connection = 0
    THEN [returned |-> FALSE, raised |-> "ConnectionError", log |-> <<>>]
    ELSE IF reply \in {"accepted", "some_refused"}
    THEN [returned |-> TRUE, raised |-> "", log |-> <<Wire("sendmail", TRUE, 0)>>]
    ELSE [returned |-> FALSE, raised |-> "ValueError",
          log |-> <<Wire("sendmail", FALSE, 0)>>]

(* SMTPClient.send_message, for a message that has recipients and a sender *)
SMTPClient_send_message(c, reply) ==
    IF ~c._is_connected \/ ~c._is_authenticated \/ c.connection = 0
    THEN [returned |-> FALSE, raised |-> "ConnectionError", log |-> <<>>]
    ELSE IF reply = "accepted"
    THEN [returned |-> TRUE, raised |-> "", log |-> <<Wire("sendmail", TRUE, 0)>>]
    ELSE [returned |-> FALSE, raised |-> "ValueError",
          log |-> <<Wire("sendmail", FALSE, 0)>>]

(* The client a Failover Client sends through: connected and authenticated *)
LiveSMTPClient(cfg) ==
    [NewSMTPClient(cfg) EXCEPT !.connection = 1, !._is_connected = TRUE,
                               !._is_authenticated = TRUE]

----------------------------------------------------------------------------
(* Initial state: get_email_service() has built the service from an        *)
(* environment that loads.                                                  *)

(* Worker threads: each runs one call of send_email, reload_configuration  *)
(* or reconnect_smtp_servers on the shared EmailService                    *)
Workers == {1, 2}

NoWork == [pc |-> "idle", op |-> "none", env |-> NoEnv,
           new_configs |-> <<>>, original_configs |-> <<>>,
           original_primary_config |-> NoCfg, original_smtp_client |-> 0,
           original_message_builder |-> NoCfg, idx |-> 0,
           overall_success |-> FALSE, cm |-> 0, entered |-> FALSE,
           success |-> FALSE, step |-> "", rollback_performed |-> FALSE,
           builder |-> NoCfg, via |-> 0, read_from |-> 0, exc |-> ""]

(* threading.RLock: owned by one thread at a time, reentrant for its owner *)
Unlocked == [owner |-> 0, count |-> 0]

(* Variant: the lock admits any thread *)
RLockFree_Unguarded(lock, t) == TRUE

(* acquire() returns at once when the lock is free or is held by the caller *)
RLockFree(lock, t) == lock.owner = 0 \/ lock.owner = t

RLockAcquired(lock, t) == [owner |-> t, count |-> lock.count + 1]

RLockReleased(lock) ==
    IF lock.count <= 1 THEN Unlocked ELSE [lock EXCEPT !.count = @ - 1]

NoHelper == [fn |-> "none", args |-> <<>>, ret |-> {}]

Init ==
    \E env \in EnvSources :
        /\ load_smtp_configs(env).ok
        /\ configs = load_smtp_configs(env).configs
        /\ primary_config = configs[1]
        /\ message_builder = configs[1]
        /\ smtp_client = 1
        /\ clients = [i \in {1} |-> NewClient(configs)]
        /\ connections = {}
        /\ now = StartTime
        /\ pc = "idle"
        /\ op = "none"
        /\ loc = NoLoc
        /\ pre = [op |-> "none", env |-> env, req |-> NoReq, server_name |-> "",
                  configs |-> configs, primary_config |-> configs[1],
                  message_builder |-> configs[1], smtp_client |-> 1,
                  current |-> NoCfg, failed_servers |-> {}]
        /\ oplog = <<>>
        /\ result = NoResult
        /\ sc = NewSMTPClient(configs[1])
        /\ sessions = {}
        /\ sclog = <<>>
        /\ scres = NoCall
        /\ workers = [t \in Workers |-> NoWork]
        /\ config_lock = Unlocked
        /\ helper = NoHelper

(* Time passes; network calls and waits take time. *)
Tick ==
    /\ UNCHANGED <<single, conc, helper>>
    /\ \E d \in TickSteps :
        /\ now + d <= MaxTime
        /\ now' = now + d
    /\ UNCHANGED <<configs, primary_config, message_builder, smtp_client, clients,
                   connections, pc, op, loc, pre, oplog, result>>

----------------------------------------------------------------------------
(* Helpers on the object store *)

Conn(owner, cfg) == [owner |-> owner, key |-> _get_server_key(cfg)]

Event(kind, owner, cfg, ok) ==
    [kind |-> kind, owner |-> owner, key |-> _get_server_key(cfg), ok |-> ok]

(* MultiServerSMTPClient.disconnect: the client afterwards, and the open   *)
(* sessions afterwards                                                      *)
(* Variant: the current client and config are not cleared *)
Disconnected_KeepsCurrent(c) == c

Disconnected(c) == [c EXCEPT !.current_config = NoCfg]

(* Variant: the transport of the current client is left open *)
ClosedCurrent_LeftOpen(conns, id, c) == conns

ClosedCurrent(conns, id, c) ==
    IF c.current_config = NoCfg THEN conns ELSE conns \ {Conn(id, c.current_config)}

(* Variant: reports the first configured server instead of the current one *)
get_current_server_FirstConfigured(c) == c.configs[1]

(* MultiServerSMTPClient.get_current_server *)
get_current_server(c) == c.current_config

(* Variant: the failure record of the adopted server is left in place *)
Adopt_KeepsRecord(c, cfg) == [c EXCEPT !.current_config = cfg]

(* Bookkeeping after a successful connect or failover send: adopt as       *)
(* current and clear the failure record                                    *)
Adopt(c, cfg) ==
    [DropRecord(c, _get_server_key(cfg)) EXCEPT !.current_config = cfg]

(* MultiServerSMTPClient.connect as one call.  The candidates are the      *)
(* available servers after the disconnect, recomputed after the reset when *)
(* there is none; winner is the position of the first candidate whose       *)
(* connection succeeds, 0 (or a position past the last) when none does.    *)
ConnectCandidates(c, t) ==
    LET av1 == _get_available_servers(Disconnected(c), t)
    IN IF av1.available = <<>>
          THEN _get_available_servers(
                   _reset_failed_servers_if_needed(av1.client, t), t)
          ELSE av1

RECURSIVE MarkFirstFailed(_, _, _, _)
MarkFirstFailed(c, available, n, t) ==
    IF n = 0 THEN c
    ELSE MarkFailed(MarkFirstFailed(c, available, n - 1, t),
                    _get_server_key(available[n]), t)

MultiServerSMTPClient_connect(c, t, winner) ==
    LET cand == ConnectCandidates(c, t)
        av == cand.available
    IN IF winner = 0 \/ winner > Len(av)
          THEN [client |-> MarkFirstFailed(cand.client, av, Len(av), t),
                ok |-> FALSE, tried |-> av]
          ELSE [client |-> Adopt(MarkFirstFailed(cand.client, av, winner - 1, t),
                                 av[winner]),
                ok |-> TRUE, tried |-> SubSeq(av, 1, winner)]

(* MultiServerSMTPClient.send_message as one call: connect first when the *)
(* client holds no connection, send on the current server (reply is its   *)
(* answer), and on failure walk the available servers; fo_winner is the   *)
(* position of the first of them that connects and accepts, 0 when none.  *)
FailoverCandidates(c, t) ==
    _get_available_servers(
        Disconnected(MarkFailed(c, _get_server_key(c.current_config), t)), t)

MultiServerSMTPClient_send_message(c, t, winner, reply, fo_winner) ==
    LET r == IF c.current_config = NoCfg
                THEN MultiServerSMTPClient_connect(c, t, winner)
                ELSE [client |-> c, ok |-> TRUE, tried |-> <<>>]
        cfg == r.client.current_config
        fo == FailoverCandidates(r.client, t)
        av == fo.available
    IN IF ~r.ok
          THEN [client |-> r.client, raised |-> "ConnectionError"]
       ELSE IF SMTPClient_send_message(LiveSMTPClient(cfg), reply).returned
          THEN [client |-> r.client, raised |-> ""]
       ELSE IF av = <<>>
          THEN [client |-> fo.client, raised |-> "ConnectionError"]
       ELSE IF fo_winner = 0 \/ fo_winner > Len(av)
          THEN [client |-> MarkFirstFailed(fo.client, av, Len(av), t),
                raised |-> "ValueError"]
       ELSE [client |-> Adopt(MarkFirstFailed(fo.client, av, fo_winner - 1, t),
                              av[fo_winner]),
             raised |-> ""]

(* The open sessions after a call on client id left it as c *)
SyncConnections(conns, id, c) ==
    {x \in conns : x.owner # id}
        \cup (IF c.current_config = NoCfg THEN {} ELSE {Conn(id, c.current_config)})

----------------------------------------------------------------------------
(* MultiServerSMTPClient.connect, running on client loc.cm *)

MCConnectBegin ==
    /\ UNCHANGED <<single, conc, helper>>
    /\ pc = "mc_begin"
    /\ LET id  == loc.cm
           c0  == Disconnected(clients[id])
           av1 == _get_available_servers(c0, now)
           c1  == IF av1.available = <<>>
                     THEN _reset_failed_servers_if_needed(av1.client, now)
                     ELSE av1.client
           av2 == IF av1.available = <<>>
                     THEN _get_available_servers(c1, now) ELSE av1
       IN /\ connections' = ClosedCurrent(connections, id, clients[id])
          /\ clients' = [clients EXCEPT ![id] = av2.client]
          /\ IF av2.available = <<>>
                THEN /\ pc' = "mc_done"
                     /\ loc' = [loc EXCEPT !.exc = "ConnectionError"]
                ELSE /\ pc' = "mc_try"
                     /\ loc' = [loc EXCEPT !.available = av2.available, !.idx = 1]
    /\ UNCHANGED <<configs, primary_config, message_builder, smtp_client, now,
                   op, pre, oplog, result>>

MCConnectTry ==
    /\ UNCHANGED <<single, conc, helper>>
    /\ pc = "mc_try"
    /\ LET id  == loc.cm
           cfg == loc.available[loc.idx]
       IN \E ok \in BOOLEAN :
          /\ oplog' = Append(oplog, Event("connect", id, cfg, ok))
          /\ IF ok
                THEN /\ clients' = [clients EXCEPT ![id] = Adopt(@, cfg)]
                     /\ connections' = connections \cup {Conn(id, cfg)}
                     /\ pc' = "mc_done"
                     /\ loc' = [loc EXCEPT !.exc = ""]
                ELSE /\ clients' = [clients EXCEPT
                                       ![id] = MarkFailed(@, _get_server_key(cfg), now)]
                     /\ connections' = connections
                     /\ IF loc.idx < Len(loc.available)
                           THEN /\ pc' = "mc_try"
                                /\ loc' = [loc EXCEPT !.idx = @ + 1]
                           ELSE /\ pc' = "mc_done"
                                /\ loc' = [loc EXCEPT !.exc = "ConnectionError"]
    /\ UNCHANGED <<configs, primary_config, message_builder, smtp_client, now,
                   op, pre, result>>

----------------------------------------------------------------------------
(* MultiServerSMTPClient.send_message and _send_with_failover, running on  *)
(* self.smtp_client with a current connection                               *)

MSSend ==
    /\ UNCHANGED <<single, conc, helper>>
    /\ pc = "ms_send"
    /\ LET id == smtp_client
           c  == clients[id]
           cfg == c.current_config
       IN \E reply \in ServerReplies :
          LET ok == SMTPClient_send_message(LiveSMTPClient(cfg), reply).returned IN
          /\ oplog' = Append(oplog, Event("send", id, cfg, ok))
          /\ IF ok
                THEN /\ pc' = "ms_done"
                     /\ loc' = [loc EXCEPT !.exc = "", !.reply = reply]
                     /\ UNCHANGED <<clients, connections>>
                ELSE LET c1 == Disconnected(MarkFailed(c, _get_server_key(cfg), now))
                         av == _get_available_servers(c1, now)
                     IN /\ clients' = [clients EXCEPT ![id] = av.client]
                        /\ connections' = ClosedCurrent(connections, id, c)
                        /\ IF av.available = <<>>
                              THEN /\ pc' = "ms_done"
                                   /\ loc' = [loc EXCEPT !.exc = "ConnectionError",
                                                         !.available = <<>>,
                                                         !.idx = 0,
                                                         !.reply = reply]
                              ELSE /\ pc' = "fo_connect"
                                   /\ loc' = [loc EXCEPT !.available = av.available,
                                                         !.idx = 1,
                                                         !.reply = reply]
    /\ UNCHANGED <<configs, primary_config, message_builder, smtp_client, now,
                   op, pre, result>>

(* Variant: the loop over the candidates ends at the first failure *)
FailoverNext_GiveUp(id, cfg, reply) ==
    /\ clients' = [clients EXCEPT ![id] = MarkFailed(@, _get_server_key(cfg), now)]
    /\ pc' = "ms_done"
    /\ loc' = [loc EXCEPT !.exc = "ValueError", !.reply = reply]

(* One failover candidate failed: record it, then the next one or give up *)
FailoverNext(id, cfg, reply) ==
    /\ clients' = [clients EXCEPT ![id] = MarkFailed(@, _get_server_key(cfg), now)]
    /\ IF loc.idx < Len(loc.available)
          THEN /\ pc' = "fo_connect"
               /\ loc' = [loc EXCEPT !.idx = @ + 1, !.reply = reply]
          ELSE /\ pc' = "ms_done"
               /\ loc' = [loc EXCEPT !.exc = "ValueError", !.reply = reply]

FOConnect ==
    /\ UNCHANGED <<single, conc, helper>>
    /\ pc = "fo_connect"
    /\ LET id  == smtp_client
           cfg == loc.available[loc.idx]
       IN \E ok \in BOOLEAN :
          /\ oplog' = Append(oplog, Event("connect", id, cfg, ok))
          /\ IF ok
                THEN /\ connections' = connections \cup {Conn(id, cfg)}
                     /\ pc' = "fo_send"
                     /\ UNCHANGED <<clients, loc>>
                ELSE /\ FailoverNext(id, cfg, loc.reply)
                     /\ connections' = connections
    /\ UNCHANGED <<configs, primary_config, message_builder, smtp_client, now,
                   op, pre, result>>

FOSend ==
    /\ UNCHANGED <<single, conc, helper>>
    /\ pc = "fo_send"
    /\ LET id  == smtp_client
           cfg == loc.available[loc.idx]
       IN \E reply \in ServerReplies :
          LET ok == SMTPClient_send_message(LiveSMTPClient(cfg), reply).returned IN
          /\ oplog' = Append(oplog, Event("send", id, cfg, ok))
          /\ IF ok
                THEN /\ clients' = [clients EXCEPT ![id] = Adopt(@, cfg)]
                     /\ pc' = "ms_done"
                     /\ loc' = [loc EXCEPT !.exc = "", !.reply = reply]
                     /\ connections' = connections
                ELSE /\ FailoverNext(id, cfg, reply)
                     /\ connections' = connections \ {Conn(id, cfg)}
    /\ UNCHANGED <<configs, primary_config, message_builder, smtp_client, now,
                   op, pre, result>>

----------------------------------------------------------------------------
(* The Failover Client driven through its own interface: connect(),        *)
(* send_message(message) and disconnect() called on self.smtp_client by a  *)
(* caller that holds it, outside of send_email.                             *)

(* await client.connect() *)
ClientConnect ==
    /\ UNCHANGED <<single, conc, helper>>
    /\ pc = "idle"
    /\ pre' = Call("connect", NoEnv, NoReq, "")
    /\ oplog' = <<>>
    /\ op' = "connect"
    /\ pc' = "mc_begin"
    /\ loc' = [NoLoc EXCEPT !.cm = smtp_client]
    /\ result' = NoResult
    /\ UNCHANGED <<configs, primary_config, message_builder, smtp_client, clients,
                   connections, now>>

(* await client.send_message(message): connect() runs first when there is *)
(* no current client                                                        *)
ClientSendMessage ==
    /\ UNCHANGED <<single, conc, helper>>
    /\ pc = "idle"
    /\ pre' = Call("send_message", NoEnv, NoReq, "")
    /\ oplog' = <<>>
    /\ op' = "send_message"
    /\ pc' = IF clients[smtp_client].current_config = NoCfg
                 THEN "mc_begin" ELSE "ms_send"
    /\ loc' = [NoLoc EXCEPT !.cm = smtp_client]
    /\ result' = NoResult
    /\ UNCHANGED <<configs, primary_config, message_builder, smtp_client, clients,
                   connections, now>>

(* connect() inside send_message returned: the send on the current client  *)
(* follows                                                                  *)
ClientSendConnected ==
    /\ UNCHANGED <<single, conc, helper>>
    /\ op = "send_message" /\ pc = "mc_done" /\ loc.exc = ""
    /\ pc' = "ms_send"
    /\ UNCHANGED <<configs, primary_config, message_builder, smtp_client, clients,
                   connections, now, op, loc, pre, oplog, result>>

(* connect() or send_message() hands its value or its exception to the     *)
(* caller; the connection it holds stays open                               *)
ClientReturn ==
    /\ UNCHANGED <<single, conc, helper>>
    /\ \/ op = "connect" /\ pc = "mc_done"
       \/ op = "send_message" /\ pc = "mc_done" /\ loc.exc # ""
       \/ op = "send_message" /\ pc = "ms_done"
    /\ result' = [NoResult EXCEPT !.op = op,
                                  !.raised = (loc.exc # ""),
                                  !.success = (loc.exc = ""),
                                  !.error_type = loc.exc]
    /\ pc' = "idle"
    /\ op' = "none"
    /\ loc' = NoLoc
    /\ UNCHANGED <<configs, primary_config, message_builder, smtp_client, clients,
                   connections, now, pre, oplog>>

(* await client.disconnect() *)
ClientDisconnect ==
    /\ UNCHANGED <<single, conc, helper>>
    /\ pc = "idle"
    /\ pre' = Call("disconnect", NoEnv, NoReq, "")
    /\ oplog' = <<>>
    /\ clients' = [clients EXCEPT ![smtp_client] = Disconnected(@)]
    /\ connections' = ClosedCurrent(connections, smtp_client, clients[smtp_client])
    /\ result' = [NoResult EXCEPT !.op = "disconnect", !.success = TRUE]
    /\ UNCHANGED <<configs, primary_config, message_builder, smtp_client, now,
                   pc, op, loc>>

----------------------------------------------------------------------------
(* EmailService.send_email, called by the send_email tool *)

(* Variant: no except clause for ValueError *)
SendErrorOutcome_ValueErrorUncaught(exc) ==
    CASE exc = "ConnectionError" ->
            [raised |-> FALSE, error_type |-> "connection_error",
             step |-> "smtp_connection",
             error |-> "SMTP connection failed on all servers"]
      [] OTHER ->
            [raised |-> TRUE, error_type |-> "", step |-> "", error |-> ""]

(* Variant: the except clause for ConnectionError is missing, the generic   *)
(* clause takes its place                                                   *)
SendErrorOutcome_NoConnectionClause(exc) ==
    CASE exc = "ValueError" ->
            [raised |-> FALSE, error_type |-> "send_error",
             step |-> "message_sending",
             error |-> "Failed to send email on all servers"]
      [] OTHER ->
            [raised |-> FALSE, error_type |-> "unexpected_error",
             step |-> "email_sending",
             error |-> "Unexpected error during email sending"]

(* The except clauses of send_email around the connect/send step: every    *)
(* exception kind is turned into a failure response.                        *)
SendErrorOutcome(exc) ==
    CASE exc = "ConnectionError" ->
            [raised |-> FALSE, error_type |-> "connection_error",
             step |-> "smtp_connection",
             error |-> "SMTP connection failed on all servers"]
      [] exc = "ValueError" ->
            [raised |-> FALSE, error_type |-> "send_error",
             step |-> "message_sending",
             error |-> "Email sending failed on all servers"]
      [] OTHER ->
            [raised |-> FALSE, error_type |-> "unexpected_error",
             step |-> "email_sending",
             error |-> "Unexpected error during email sending"]

send_email(req) ==
    LET errors == validate_email_request(req, primary_config) IN
    IF ~RequestConstructs(req)
    THEN /\ result' = [NoResult EXCEPT !.op = "send_email",
                                       !.error = "Invalid email request"]
         /\ UNCHANGED <<pc, op, loc>>
    ELSE IF errors # <<>>
    THEN /\ result' = [NoResult EXCEPT !.op = "send_email",
                                       !.reached_service = TRUE,
                                       !.error = "Email request validation failed",
                                       !.validation_errors = errors]
         /\ UNCHANGED <<pc, op, loc>>
    ELSE IF ~build_message_ok(req, message_builder)
    THEN /\ result' = [NoResult EXCEPT !.op = "send_email",
                                       !.reached_service = TRUE,
                                       !.error = "Failed to build email message",
                                       !.step = "message_building"]
         /\ UNCHANGED <<pc, op, loc>>
    ELSE /\ pc' = "mc_begin"
         /\ op' = "send_email"
         /\ loc' = [NoLoc EXCEPT !.cm = smtp_client,
                                 !.message_id = message_builder.host]
         /\ result' = NoResult

SendEmailTool ==
    /\ UNCHANGED <<single, conc, helper>>
    /\ pc = "idle"
    /\ oplog' = <<>>
    /\ \E req \in Requests :
        /\ pre' = Call("send_email", NoEnv, req, "")
        /\ send_email(req)
    /\ UNCHANGED <<configs, primary_config, message_builder, smtp_client, clients,
                   connections, now>>

(* __aenter__ returned: the body of the with block starts *)
SendEmailConnected ==
    /\ UNCHANGED <<single, conc, helper>>
    /\ op = "send_email" /\ pc = "mc_done" /\ loc.exc = ""
    /\ pc' = "ms_send"
    /\ UNCHANGED <<configs, primary_config, message_builder, smtp_client, clients,
                   connections, now, op, loc, pre, oplog, result>>

(* send_message returned: read the current server, build the response,     *)
(* then __aexit__ disconnects                                               *)
SendEmailSucceeded ==
    /\ UNCHANGED <<single, conc, helper>>
    /\ op = "send_email" /\ pc = "ms_done" /\ loc.exc = ""
    /\ LET current_server == get_current_server(clients[smtp_client])
           response == [NoResult EXCEPT
                           !.op = "send_email", !.reached_service = TRUE,
                           !.success = TRUE, !.message_id = loc.message_id,
                           !.smtp_server = IF current_server # NoCfg
                                              THEN current_server.name ELSE "unknown"]
           rejected == [NoResult EXCEPT
                           !.op = "send_email", !.reached_service = TRUE,
                           !.error = SendErrorOutcome("ValueError").error,
                           !.error_type = SendErrorOutcome("ValueError").error_type,
                           !.step = SendErrorOutcome("ValueError").step]
       IN /\ result' = IF EmailResponseOk(response) THEN response ELSE rejected
          /\ clients' = [clients EXCEPT ![loc.cm] = Disconnected(@)]
          /\ connections' = ClosedCurrent(connections, loc.cm, clients[loc.cm])
    /\ pc' = "idle"
    /\ op' = "none"
    /\ loc' = NoLoc
    /\ UNCHANGED <<configs, primary_config, message_builder, smtp_client, now,
                   pre, oplog>>

(* connect or send_message raised: __aexit__ disconnects when the body had *)
(* been entered, the except clause builds the failure response with the    *)
(* pool status                                                              *)
SendEmailFailed ==
    /\ UNCHANGED <<single, conc, helper>>
    /\ op = "send_email" /\ pc \in {"mc_done", "ms_done"} /\ loc.exc # ""
    /\ LET entered == pc = "ms_done"
           cl1 == IF entered THEN [clients EXCEPT ![loc.cm] = Disconnected(@)]
                             ELSE clients
           st == get_server_status(cl1[smtp_client], now)
           outcome == SendErrorOutcome(loc.exc)
       IN /\ connections' = IF entered
                               THEN ClosedCurrent(connections, loc.cm, clients[loc.cm])
                               ELSE connections
          /\ clients' = [cl1 EXCEPT ![smtp_client] = st.client]
          /\ result' = [NoResult EXCEPT
                           !.op = "send_email", !.reached_service = TRUE,
                           !.raised = outcome.raised,
                           !.error = IF outcome.raised THEN "" ELSE outcome.error,
                           !.error_type = outcome.error_type,
                           !.step = outcome.step,
                           !.has_status = ~outcome.raised,
                           !.server_status = st.status]
    /\ pc' = "idle"
    /\ op' = "none"
    /\ loc' = NoLoc
    /\ UNCHANGED <<configs, primary_config, message_builder, smtp_client, now,
                   pre, oplog>>

----------------------------------------------------------------------------
(* EmailService.test_connection: probe every configured server with its    *)
(* own SMTPClient, then connect once through the Failover Client           *)

TCProbe ==
    /\ UNCHANGED <<single, conc, helper>>
    /\ pc = "tc_probe"
    /\ LET cfg == configs[loc.idx] IN
       \E ok \in BOOLEAN :
          /\ oplog' = Append(oplog, Event("probe", 0, cfg, ok))
          /\ IF loc.idx < Len(configs)
                THEN /\ pc' = "tc_probe"
                     /\ loc' = [loc EXCEPT !.idx = @ + 1,
                                           !.overall_success = @ \/ ok]
                ELSE /\ pc' = "mc_begin"
                     /\ loc' = [loc EXCEPT !.cm = smtp_client, !.idx = 0,
                                           !.overall_success = @ \/ ok]
    /\ UNCHANGED <<configs, primary_config, message_builder, smtp_client, clients,
                   connections, now, op, pre, result>>

(* Variant: the overall verdict is that of the Failover Client connect *)
TestConnectionEnd_FailoverVerdict ==
    LET entered == loc.exc = ""
        cl1 == IF entered THEN [clients EXCEPT ![loc.cm] = Disconnected(@)]
                          ELSE clients
        st == get_server_status(cl1[smtp_client], now)
    IN [clients |-> [cl1 EXCEPT ![smtp_client] = st.client],
        connections |-> IF entered
                           THEN ClosedCurrent(connections, loc.cm, clients[loc.cm])
                           ELSE connections,
        success |-> entered,
        multi_server_success |-> entered,
        server_status |-> st.status]

(* The end of test_connection, once the Failover Client connect returned   *)
(* or raised: leave the with block, take the status snapshot.  Gives the   *)
(* client store, the open sessions and the returned dict.                   *)
TestConnectionEnd ==
    LET entered == loc.exc = ""
        cl1 == IF entered THEN [clients EXCEPT ![loc.cm] = Disconnected(@)]
                          ELSE clients
        st == get_server_status(cl1[smtp_client], now)
    IN [clients |-> [cl1 EXCEPT ![smtp_client] = st.client],
        connections |-> IF entered
                           THEN ClosedCurrent(connections, loc.cm, clients[loc.cm])
                           ELSE connections,
        success |-> loc.overall_success,
        multi_server_success |-> entered,
        server_status |-> st.status]

TestConnectionTool ==
    /\ UNCHANGED <<single, conc, helper>>
    /\ pc = "idle"
    /\ oplog' = <<>>
    /\ pre' = Call("test_connection", NoEnv, NoReq, "")
    /\ result' = NoResult
    /\ op' = "test_connection"
    /\ pc' = "tc_probe"
    /\ loc' = [NoLoc EXCEPT !.idx = 1]
    /\ UNCHANGED <<configs, primary_config, message_builder, smtp_client, clients,
                   connections, now>>

TestConnectionReturn ==
    /\ UNCHANGED <<single, conc, helper>>
    /\ op = "test_connection" /\ pc = "mc_done"
    /\ LET t == TestConnectionEnd IN
       /\ clients' = t.clients
       /\ connections' = t.connections
       /\ result' = [NoResult EXCEPT !.op = "test_connection",
                                     !.success = t.success,
                                     !.multi_server_success = t.multi_server_success,
                                     !.has_status = TRUE,
                                     !.server_status = t.server_status]
    /\ pc' = "idle"
    /\ op' = "none"
    /\ loc' = NoLoc
    /\ UNCHANGED <<configs, primary_config, message_builder, smtp_client, now,
                   pre, oplog>>

----------------------------------------------------------------------------
(* EmailService.reload_configuration *)

Names(cs) == {cs[i].name : i \in 1..Len(cs)}

(* Variant: duplicate server names are not looked for *)
_validate_configuration_changes_NoNameCheck(old_configs, new_configs) ==
    IF new_configs = <<>> THEN {"no_servers"}
    ELSE {"invalid_server" : i \in {j \in 1..Len(new_configs) : ~validate(new_configs[j])}}
         \cup {"duplicate_configuration" : i \in {j \in 1..Len(new_configs) :
                   \E k \in 1..(j - 1) :
                       _get_server_key(new_configs[k]) = _get_server_key(new_configs[j])}}

(* _validate_configuration_changes: the set of error kinds found *)
_validate_configuration_changes(old_configs, new_configs) ==
    IF new_configs = <<>> THEN {"no_servers"}
    ELSE {"invalid_server" : i \in {j \in 1..Len(new_configs) : ~validate(new_configs[j])}}
         \cup {"duplicate_names" : i \in {j \in 1..Len(new_configs) :
                   \E k \in 1..Len(new_configs) :
                       k # j /\ new_configs[k].name = new_configs[j].name}}
         \cup {"duplicate_configuration" : i \in {j \in 1..Len(new_configs) :
                   \E k \in 1..(j - 1) :
                       _get_server_key(new_configs[k]) = _get_server_key(new_configs[j])}}

(* The fields compared by _generate_configuration_change_summary *)
ChangedFields(o, n) ==
    {f \in {"host", "port", "username", "priority", "use_tls", "use_ssl",
            "timeout", "max_retries"} : o[f] # n[f]}

FirstNamed(cs, name) ==
    cs[CHOOSE i \in 1..Len(cs) :
          /\ cs[i].name = name
          /\ \A j \in 1..(i - 1) : cs[j].name # name]

RECURSIVE ModifiedServers(_, _)
ModifiedServers(old_configs, new_configs) ==
    IF old_configs = <<>> THEN <<>>
    ELSE LET o == Head(old_configs)
             rest == ModifiedServers(Tail(old_configs), new_configs)
         IN IF o.name \in Names(new_configs)
               /\ ChangedFields(o, FirstNamed(new_configs, o.name)) # {}
            THEN <<[name |-> o.name,
                    changes |-> ChangedFields(o, FirstNamed(new_configs, o.name))]>>
                 \o rest
            ELSE rest

RECURSIVE UnchangedServers(_, _)
UnchangedServers(old_configs, new_configs) ==
    IF old_configs = <<>> THEN <<>>
    ELSE LET o == Head(old_configs)
             rest == UnchangedServers(Tail(old_configs), new_configs)
         IN IF o.name \in Names(new_configs)
               /\ ChangedFields(o, FirstNamed(new_configs, o.name)) = {}
            THEN <<o.name>> \o rest
            ELSE rest

_generate_configuration_change_summary(old_configs, new_configs) ==
    LET removed == Names(old_configs) \ Names(new_configs)
        added == Names(new_configs) \ Names(old_configs)
        modified == ModifiedServers(old_configs, new_configs)
    IN [total_changes |-> Cardinality(removed) + Cardinality(added) + Len(modified),
        servers_removed |-> removed,
        servers_added |-> added,
        servers_modified |-> modified,
        servers_unchanged |-> UnchangedServers(old_configs, new_configs)]

FreshClientId == CHOOSE i \in 1..(Cardinality(DOMAIN clients) + 1) : i \notin DOMAIN clients

Without(f, id) == [x \in (DOMAIN f) \ {id} |-> f[x]]

With(f, id, v) == [x \in (DOMAIN f) \cup {id} |-> IF x = id THEN v ELSE f[x]]

(* Variant: the message builder is not rebuilt *)
NewMessageBuilder_Stale(new_configs) == message_builder

(* EmailMessageBuilder(self.primary_config) for the new list *)
NewMessageBuilder(new_configs) == new_configs[1]

(* Steps 1-4: load, validate, disconnect the current client, swap *)
reload_configuration(env) ==
    LET loaded == load_smtp_configs(env)
        new_configs == loaded.configs
        errors == _validate_configuration_changes(configs, new_configs)
        new_id == FreshClientId
    IN IF ~loaded.ok
       THEN /\ result' = [NoResult EXCEPT !.op = "reload_configuration",
                             !.error = "Failed to load new configuration",
                             !.step = "configuration_loading"]
            /\ UNCHANGED <<configs, primary_config, message_builder, smtp_client,
                           clients, connections, pc, op, loc>>
       ELSE IF errors # {}
       THEN /\ result' = [NoResult EXCEPT !.op = "reload_configuration",
                             !.error = "Configuration validation failed",
                             !.step = "configuration_validation"]
            /\ UNCHANGED <<configs, primary_config, message_builder, smtp_client,
                           clients, connections, pc, op, loc>>
       ELSE /\ connections' = ClosedCurrent(connections, smtp_client,
                                            clients[smtp_client])
            /\ clients' = With([clients EXCEPT ![smtp_client] = Disconnected(@)],
                               new_id, NewClient(new_configs))
            /\ configs' = new_configs
            /\ primary_config' = new_configs[1]
            /\ smtp_client' = new_id
            /\ message_builder' = NewMessageBuilder(new_configs)
            /\ result' = NoResult
            /\ op' = "reload_configuration"
            /\ pc' = "tc_probe"
            /\ loc' = [NoLoc EXCEPT !.idx = 1,
                                    !.new_configs = new_configs,
                                    !.original_configs = configs,
                                    !.original_primary_config = primary_config,
                                    !.original_smtp_client = smtp_client,
                                    !.original_message_builder = message_builder]

ReloadStart ==
    /\ UNCHANGED <<single, conc, helper>>
    /\ pc = "idle"
    /\ oplog' = <<>>
    /\ \E env \in EnvSources :
        /\ pre' = Call("reload_configuration", env, NoReq, "")
        /\ reload_configuration(env)
    /\ now' = now

(* Variant: the server list is not restored *)
RolledBack_KeepingNewConfigs ==
    [configs |-> configs,
     primary_config |-> loc.original_primary_config,
     smtp_client |-> loc.original_smtp_client,
     message_builder |-> loc.original_message_builder]

(* The rollback assignments: the snapshot taken at the start of the call *)
RolledBack ==
    [configs |-> loc.original_configs,
     primary_config |-> loc.original_primary_config,
     smtp_client |-> loc.original_smtp_client,
     message_builder |-> loc.original_message_builder]

(* Step 5 and 6: the connection test returned; roll back or report *)
ReloadFinish ==
    /\ UNCHANGED <<single, conc, helper>>
    /\ op = "reload_configuration" /\ pc = "mc_done"
    /\ LET t == TestConnectionEnd IN
       /\ IF ~t.success
             THEN /\ connections' = ClosedCurrent(t.connections, smtp_client,
                                                  t.clients[smtp_client])
                  /\ clients' = Without(t.clients, smtp_client)
                  /\ configs' = RolledBack.configs
                  /\ primary_config' = RolledBack.primary_config
                  /\ smtp_client' = RolledBack.smtp_client
                  /\ message_builder' = RolledBack.message_builder
                  /\ result' = [NoResult EXCEPT !.op = "reload_configuration",
                                   !.error = "New configuration failed connection test",
                                   !.step = "connection_test",
                                   !.rollback_performed = TRUE,
                                   !.has_status = TRUE,
                                   !.server_status = t.server_status]
             ELSE /\ connections' = t.connections
                  /\ clients' = Without(t.clients, loc.original_smtp_client)
                  /\ result' = [NoResult EXCEPT !.op = "reload_configuration",
                                   !.success = TRUE,
                                   !.changes = _generate_configuration_change_summary(
                                                   loc.original_configs, loc.new_configs),
                                   !.multi_server_success = t.multi_server_success,
                                   !.has_status = TRUE,
                                   !.server_status = t.server_status]
                  /\ UNCHANGED <<configs, primary_config, smtp_client, message_builder>>
    /\ pc' = "idle"
    /\ op' = "none"
    /\ loc' = NoLoc
    /\ UNCHANGED <<now, pre, oplog>>

----------------------------------------------------------------------------
(* EmailService.reconnect_smtp_servers *)

ReconnectStart ==
    /\ UNCHANGED <<single, conc, helper>>
    /\ pc = "idle"
    /\ oplog' = <<>>
    /\ pre' = [Call("reconnect_smtp_servers", NoEnv, NoReq, "")
                  EXCEPT !.failed_servers = clients[smtp_client].failed_servers]
    /\ result' = NoResult
    /\ connections' = ClosedCurrent(connections, smtp_client, clients[smtp_client])
    /\ clients' = [clients EXCEPT ![smtp_client] =
                      [Disconnected(@) EXCEPT !.failed_servers = {},
                                              !.last_failure_time = <<>>]]
    /\ op' = "reconnect_smtp_servers"
    /\ pc' = "tc_probe"
    /\ loc' = [NoLoc EXCEPT !.idx = 1]
    /\ UNCHANGED <<configs, primary_config, message_builder, smtp_client, now>>

ReconnectFinish ==
    /\ UNCHANGED <<single, conc, helper>>
    /\ op = "reconnect_smtp_servers" /\ pc = "mc_done"
    /\ LET t == TestConnectionEnd IN
       /\ clients' = t.clients
       /\ connections' = t.connections
       /\ result' = [NoResult EXCEPT !.op = "reconnect_smtp_servers",
                        !.success = t.success,
                        !.error = IF t.success THEN ""
                                  ELSE "Some servers failed to reconnect",
                        !.multi_server_success = t.multi_server_success,
                        !.has_status = TRUE,
                        !.server_status = t.server_status]
    /\ pc' = "idle"
    /\ op' = "none"
    /\ loc' = NoLoc
    /\ UNCHANGED <<configs, primary_config, message_builder, smtp_client, now,
                   pre, oplog>>

----------------------------------------------------------------------------
(* The switch_smtp_server tool (src/server.py) *)

ServerNames == {"primary", "backup", "alias", "unknown"}

(* Variant: the requested server is put last *)
Reprioritized_TargetLast(cs, server_name) ==
    LET Other(c) == c.name # server_name
    IN SelectSeq(cs, Other) \o <<FirstNamed(cs, server_name)>>

(* [target_config] + [c for c in original_configs if c.name != server_name] *)
Reprioritized(cs, server_name) ==
    LET Other(c) == c.name # server_name
    IN <<FirstNamed(cs, server_name)>> \o SelectSeq(cs, Other)

switch_smtp_server(server_name) ==
    IF server_name \notin Names(configs)
    THEN /\ result' = [NoResult EXCEPT !.op = "switch_smtp_server",
                                       !.error = "Server not found"]
         /\ UNCHANGED <<configs, clients, connections, pc, op, loc>>
    ELSE LET reordered == Reprioritized(configs, server_name) IN
         /\ connections' = ClosedCurrent(connections, smtp_client,
                                         clients[smtp_client])
         /\ configs' = reordered
         /\ clients' = [clients EXCEPT ![smtp_client] =
                           [Disconnected(@) EXCEPT !.configs = reordered]]
         /\ result' = NoResult
         /\ op' = "switch_smtp_server"
         /\ pc' = "mc_begin"
         /\ loc' = [NoLoc EXCEPT !.cm = smtp_client,
                                 !.target = server_name,
                                 !.original_configs = configs]

SwitchServerStart ==
    /\ UNCHANGED <<single, conc, helper>>
    /\ pc = "idle"
    /\ oplog' = <<>>
    /\ \E server_name \in ServerNames :
        /\ pre' = Call("switch_smtp_server", NoEnv, NoReq, server_name)
        /\ switch_smtp_server(server_name)
    /\ UNCHANGED <<primary_config, message_builder, smtp_client, now>>

SwitchServerFinish ==
    /\ UNCHANGED <<single, conc, helper>>
    /\ op = "switch_smtp_server" /\ pc = "mc_done"
    /\ IF loc.exc = ""
          THEN /\ result' = [NoResult EXCEPT !.op = "switch_smtp_server",
                                !.success = TRUE,
                                !.smtp_server =
                                    get_current_server(clients[smtp_client]).name]
               /\ UNCHANGED <<configs, clients>>
          ELSE /\ configs' = loc.original_configs
               /\ clients' = [clients EXCEPT ![smtp_client].configs =
                                                  loc.original_configs]
               /\ result' = [NoResult EXCEPT !.op = "switch_smtp_server",
                                !.error = "Failed to switch to server",
                                !.smtp_server =
                                    get_current_server(clients[smtp_client]).name]
    /\ pc' = "idle"
    /\ op' = "none"
    /\ loc' = NoLoc
    /\ UNCHANGED <<primary_config, message_builder, smtp_client, connections, now,
                   pre, oplog>>

(* The get_smtp_status tool: EmailService.get_service_status *)
GetStatusTool ==
    /\ UNCHANGED <<single, conc, helper>>
    /\ pc = "idle"
    /\ oplog' = <<>>
    /\ pre' = Call("get_smtp_status", NoEnv, NoReq, "")
    /\ LET st == get_server_status(clients[smtp_client], now) IN
       /\ clients' = [clients EXCEPT ![smtp_client] = st.client]
       /\ result' = [NoResult EXCEPT !.op = "get_smtp_status", !.success = TRUE,
                                     !.has_status = TRUE,
                                     !.server_status = st.status]
    /\ UNCHANGED <<configs, primary_config, message_builder, smtp_client,
                   connections, now, pc, op, loc>>

----------------------------------------------------------------------------
(* The SMTPClient interface called directly, in any order *)

SCConnect ==
    /\ \E script \in ConnectScripts(sc.config), quit_ok \in BOOLEAN :
          LET r == SMTPClient_connect(sc, sessions, script, quit_ok) IN
          /\ sc' = r.client
          /\ sessions' = r.sessions
          /\ sclog' = r.log
          /\ scres' = [op |-> "connect", returned |-> r.returned, raised |-> r.raised,
                       script |-> IF sc._is_connected /\ sc._is_authenticated
                                     THEN <<>> ELSE script]
    /\ UNCHANGED <<pool, conc, helper>>

SCDisconnect ==
    /\ \E quit_ok \in BOOLEAN, close_ok \in BOOLEAN :
          LET r == SMTPClient_disconnect(sc, sessions, quit_ok, close_ok) IN
          /\ sc' = r.client
          /\ sessions' = r.sessions
          /\ sclog' = r.log
          /\ scres' = [op |-> "disconnect", returned |-> r.raised = "",
                       raised |-> r.raised, script |-> <<>>]
    /\ UNCHANGED <<pool, conc, helper>>

SCSend ==
    /\ \E reply \in ServerReplies :
          LET r == SMTPClient_send_message(sc, reply) IN
          /\ sclog' = r.log
          /\ scres' = [op |-> "send_message", returned |-> r.returned,
                       raised |-> r.raised, script |-> <<>>]
    /\ UNCHANGED <<sc, sessions>>
    /\ UNCHANGED <<pool, conc, helper>>

----------------------------------------------------------------------------
(* send_email, reload_configuration and reconnect_smtp_servers called from *)
(* worker threads.  The two reconfiguration operations run their whole     *)
(* body inside `with self._config_lock:`; a thread that finds the lock     *)
(* held by another waits at that statement.  send_email takes no lock.     *)
(* A step is one access to the service's fields or one call on a Failover  *)
(* Client; the steps of the threads interleave.                             *)

(* The environments a worker reloads from *)
ConcEnvs ==
    { [numbered |-> <<CfgA, CfgB>>,       single |-> NoCfg],
      [numbered |-> <<CfgC, CfgA, CfgB>>, single |-> NoCfg],
      [numbered |-> <<CfgA, CfgDupName>>, single |-> NoCfg],
      [numbered |-> <<>>,                 single |-> CfgB] }

ThreadOps == {"send_email", "reload_configuration", "reconnect_smtp_servers"}

(* Client objects some thread or the service still refers to *)
Referenced(service_client, tasks) ==
    {service_client}
        \cup {tasks[t].cm : t \in Workers}
        \cup {tasks[t].original_smtp_client : t \in Workers}

Collected(store, service_client, tasks) ==
    [id \in (DOMAIN store) \cap Referenced(service_client, tasks) |-> store[id]]

(* A thread starts its call: a reconfiguration reaches the with statement, *)
(* a send (of a valid request) its validation                               *)
Invoke ==
    \E t \in Workers, name \in ThreadOps, env \in ConcEnvs :
        /\ workers[t].pc = "idle"
        /\ workers[t].op = "none"
        /\ name # "reload_configuration" => env = CHOOSE e \in ConcEnvs : TRUE
        /\ workers' = [workers EXCEPT ![t] =
              [NoWork EXCEPT !.pc = IF name = "send_email" THEN "build"
                                                           ELSE "acquire",
                             !.op = name,
                             !.env = IF name = "reload_configuration"
                                        THEN env ELSE NoEnv]]
        /\ UNCHANGED <<pool, single, helper, config_lock>>

(* send_email steps 1 and 2: validate, build with self.message_builder *)
Build ==
    \E t \in Workers :
        /\ workers[t].pc = "build"
        /\ workers' = [workers EXCEPT ![t].pc = "enter",
                                      ![t].builder = message_builder]
        /\ UNCHANGED <<pool, single, helper, config_lock>>

(* async with self.smtp_client: the reference is read, __aenter__ connects *)
Enter ==
    \E t \in Workers :
        LET id == smtp_client IN
        \E winner \in 0..Len(ConnectCandidates(clients[id], now).available) :
            LET r == MultiServerSMTPClient_connect(clients[id], now, winner) IN
            /\ workers[t].pc = "enter"
            /\ clients' = [clients EXCEPT ![id] = r.client]
            /\ connections' = SyncConnections(connections, id, r.client)
            /\ workers' = [workers EXCEPT
                  ![t].pc = IF r.ok THEN "send" ELSE "failed",
                  ![t].cm = IF r.ok THEN id ELSE 0,
                  ![t].exc = IF r.ok THEN "" ELSE "ConnectionError"]
            /\ UNCHANGED <<configs, primary_config, message_builder, smtp_client,
                           now, pc, op, loc, pre, oplog, result, single, helper,
                           config_lock>>

(* await self.smtp_client.send_message(message): the reference is read again *)
Send ==
    \E t \in Workers, reply \in ServerReplies :
        LET id == smtp_client
            n == Len(clients[id].configs)
        IN
        \E winner \in 0..n, fo_winner \in 0..n :
            LET r == MultiServerSMTPClient_send_message(clients[id], now, winner,
                                                        reply, fo_winner)
            IN
            /\ workers[t].pc = "send"
            /\ clients[id].current_config # NoCfg => winner = 0
            /\ clients' = [clients EXCEPT ![id] = r.client]
            /\ connections' = SyncConnections(connections, id, r.client)
            /\ workers' = [workers EXCEPT
                  ![t].pc = IF r.raised = "" THEN "read" ELSE "exit",
                  ![t].via = id,
                  ![t].exc = r.raised]
            /\ UNCHANGED <<configs, primary_config, message_builder, smtp_client,
                           now, pc, op, loc, pre, oplog, result, single, helper,
                           config_lock>>

(* self.smtp_client.get_current_server(): the reference is read a third time *)
ReadCurrent ==
    \E t \in Workers :
        /\ workers[t].pc = "read"
        /\ workers' = [workers EXCEPT ![t].pc = "exit",
                                      ![t].read_from = smtp_client,
                                      ![t].success = TRUE]
        /\ UNCHANGED <<pool, single, helper, config_lock>>

(* __aexit__ disconnects the client the with statement was entered on; a  *)
(* failed send then takes the status of self.smtp_client; the call returns *)
Exit ==
    \E t \in Workers :
        LET w == workers[t]
            cl1 == IF w.cm = 0 THEN clients
                   ELSE [clients EXCEPT ![w.cm] = Disconnected(@)]
            cl2 == IF w.exc = "" THEN cl1
                   ELSE [cl1 EXCEPT ![smtp_client] =
                            get_server_status(cl1[smtp_client], now).client]
            after == [workers EXCEPT ![t].pc = "idle", ![t].cm = 0]
            kept == Collected(cl2, smtp_client, after)
        IN /\ w.pc \in {"exit", "failed"}
           /\ workers' = after
           /\ clients' = kept
           /\ connections' =
                 {x \in (IF w.cm = 0 THEN connections
                         ELSE SyncConnections(connections, w.cm, cl1[w.cm])) :
                     x.owner \in DOMAIN kept}
           /\ UNCHANGED <<configs, primary_config, message_builder, smtp_client,
                          now, pc, op, loc, pre, oplog, result, single, helper, config_lock>>

(* with self._config_lock: entered *)
Acquire ==
    \E t \in Workers :
        /\ workers[t].pc = "acquire"
        /\ RLockFree(config_lock, t)
        /\ config_lock' = RLockAcquired(config_lock, t)
        /\ workers' = [workers EXCEPT ![t].pc =
              IF workers[t].op = "reload_configuration" THEN "load" ELSE "reset"]
        /\ UNCHANGED <<pool, single, helper>>

(* reload: snapshot of the four fields, steps 1 and 2 (load, validate) *)
Load ==
    \E t \in Workers :
        LET w == workers[t]
            loaded == load_smtp_configs(w.env)
            errors == _validate_configuration_changes(configs, loaded.configs)
            snapshot == [w EXCEPT !.original_configs = configs,
                                  !.original_primary_config = primary_config,
                                  !.original_smtp_client = smtp_client,
                                  !.original_message_builder = message_builder]
        IN /\ w.pc = "load"
           /\ workers' = [workers EXCEPT ![t] =
                 IF ~loaded.ok
                    THEN [snapshot EXCEPT !.pc = "release",
                                          !.step = "configuration_loading"]
                 ELSE IF errors # {}
                    THEN [snapshot EXCEPT !.pc = "release",
                                          !.step = "configuration_validation"]
                 ELSE [snapshot EXCEPT !.pc = "disconnect",
                                       !.new_configs = loaded.configs]]
           /\ UNCHANGED <<pool, single, helper, config_lock>>

(* reload step 3: await self.smtp_client.disconnect() *)
DisconnectCurrent ==
    \E t \in Workers :
        /\ workers[t].pc = "disconnect"
        /\ connections' = ClosedCurrent(connections, smtp_client, clients[smtp_client])
        /\ clients' = [clients EXCEPT ![smtp_client] = Disconnected(@)]
        /\ workers' = [workers EXCEPT ![t].pc = "swap"]
        /\ UNCHANGED <<configs, primary_config, message_builder, smtp_client, now,
                       pc, op, loc, pre, oplog, result, single, helper, config_lock>>

(* reload step 4, first three assignments: the list, the primary config    *)
(* and a new Failover Client                                                *)
SwapClient ==
    \E t \in Workers :
        LET new_id == FreshClientId IN
        /\ workers[t].pc = "swap"
        /\ configs' = workers[t].new_configs
        /\ primary_config' = workers[t].new_configs[1]
        /\ clients' = With(clients, new_id, NewClient(workers[t].new_configs))
        /\ smtp_client' = new_id
        /\ workers' = [workers EXCEPT ![t].pc = "swap_builder"]
        /\ UNCHANGED <<message_builder, connections, now, pc, op, loc, pre, oplog,
                       result, single, helper, config_lock>>

(* reload step 4, last assignment: the message builder *)
SwapBuilder ==
    \E t \in Workers :
        /\ workers[t].pc = "swap_builder"
        /\ message_builder' = NewMessageBuilder(workers[t].new_configs)
        /\ workers' = [workers EXCEPT ![t].pc = "probe", ![t].idx = 1]
        /\ UNCHANGED <<configs, primary_config, smtp_client, clients, connections,
                       now, pc, op, loc, pre, oplog, result, single, helper, config_lock>>

(* reconnect: disconnect the client, clear the failed set and the times *)
ResetFailures ==
    \E t \in Workers :
        /\ workers[t].pc = "reset"
        /\ connections' = ClosedCurrent(connections, smtp_client, clients[smtp_client])
        /\ clients' = [clients EXCEPT ![smtp_client] =
                          [Disconnected(@) EXCEPT !.failed_servers = {},
                                                  !.last_failure_time = <<>>]]
        /\ workers' = [workers EXCEPT ![t].pc = "probe", ![t].idx = 1]
        /\ UNCHANGED <<configs, primary_config, message_builder, smtp_client, now,
                       pc, op, loc, pre, oplog, result, single, helper, config_lock>>

(* test_connection: one configured server probed with its own SMTPClient *)
Probe ==
    \E t \in Workers, ok \in BOOLEAN :
        /\ workers[t].pc = "probe"
        /\ workers' = [workers EXCEPT
              ![t].overall_success = @ \/ ok,
              ![t].idx = @ + 1,
              ![t].pc = IF workers[t].idx < Len(configs)
                           THEN "probe" ELSE "test_connect"]
        /\ UNCHANGED <<pool, single, helper, config_lock>>

(* test_connection: async with self.smtp_client, __aenter__ *)
TestConnect ==
    \E t \in Workers :
        LET id == smtp_client IN
        \E winner \in 0..Len(ConnectCandidates(clients[id], now).available) :
            LET r == MultiServerSMTPClient_connect(clients[id], now, winner) IN
            /\ workers[t].pc = "test_connect"
            /\ clients' = [clients EXCEPT ![id] = r.client]
            /\ connections' =
                  ClosedCurrent(connections, id, clients[id])
                      \cup (IF r.ok THEN {Conn(id, r.client.current_config)} ELSE {})
            /\ workers' = [workers EXCEPT ![t].pc = "test_exit", ![t].cm = id,
                                          ![t].entered = r.ok]
            /\ UNCHANGED <<configs, primary_config, message_builder, smtp_client,
                           now, pc, op, loc, pre, oplog, result, single, helper,
                           config_lock>>

(* test_connection: __aexit__ when the block was entered, then the status  *)
(* snapshot of self.smtp_client                                             *)
TestExit ==
    \E t \in Workers :
        LET w == workers[t]
            cl1 == IF w.entered THEN [clients EXCEPT ![w.cm] = Disconnected(@)]
                                ELSE clients
            st == get_server_status(cl1[smtp_client], now)
        IN /\ w.pc = "test_exit"
           /\ clients' = [cl1 EXCEPT ![smtp_client] = st.client]
           /\ connections' = IF w.entered
                                THEN ClosedCurrent(connections, w.cm, clients[w.cm])
                                ELSE connections
           /\ workers' = [workers EXCEPT ![t].pc = "finish",
                                         ![t].success = w.overall_success]
           /\ UNCHANGED <<configs, primary_config, message_builder, smtp_client,
                          now, pc, op, loc, pre, oplog, result, single, helper, config_lock>>

(* reload step 5 and 6, or the end of reconnect: roll back when the test   *)
(* of a reload failed, otherwise report                                     *)
Finish ==
    \E t \in Workers :
        LET w == workers[t]
            rollback == w.op = "reload_configuration" /\ ~w.success
        IN /\ w.pc = "finish"
           /\ IF rollback
                 THEN /\ connections' = ClosedCurrent(connections, smtp_client,
                                                      clients[smtp_client])
                      /\ clients' = [clients EXCEPT ![smtp_client] = Disconnected(@)]
                      /\ configs' = w.original_configs
                      /\ primary_config' = w.original_primary_config
                      /\ smtp_client' = w.original_smtp_client
                      /\ message_builder' = w.original_message_builder
                 ELSE UNCHANGED <<configs, primary_config, smtp_client,
                                  message_builder, clients, connections>>
           /\ workers' = [workers EXCEPT
                 ![t].pc = "release",
                 ![t].rollback_performed = rollback,
                 ![t].step = IF rollback THEN "connection_test" ELSE ""]
           /\ UNCHANGED <<now, pc, op, loc, pre, oplog, result, single, helper, config_lock>>

(* The with statement is left: the lock is released, the call returns and  *)
(* its locals are dropped                                                   *)
Release ==
    \E t \in Workers :
        LET after == [workers EXCEPT ![t].pc = "idle", ![t].cm = 0,
                                     ![t].original_smtp_client = 0]
            kept == Collected(clients, smtp_client, after)
        IN /\ workers[t].pc = "release"
           /\ config_lock' = RLockReleased(config_lock)
           /\ workers' = after
           /\ clients' = kept
           /\ connections' = {x \in connections : x.owner \in DOMAIN kept}
           /\ UNCHANGED <<configs, primary_config, message_builder, smtp_client,
                          now, pc, op, loc, pre, oplog, result, single, helper>>

----------------------------------------------------------------------------
(* Steps of the operations that work over a fixed configuration *)
DeliveryStep ==
    \/ SendEmailTool
    \/ MCConnectBegin
    \/ MCConnectTry
    \/ SendEmailConnected
    \/ MSSend
    \/ FOConnect
    \/ FOSend
    \/ SendEmailSucceeded
    \/ SendEmailFailed
    \/ TestConnectionTool
    \/ TCProbe
    \/ TestConnectionReturn
    \/ ReconnectStart
    \/ ReconnectFinish
    \/ SwitchServerStart
    \/ SwitchServerFinish
    \/ GetStatusTool

(* Delivery, failover and backoff over time, on the configuration loaded  *)
(* at startup                                                              *)
Next ==
    \/ Tick
    \/ DeliveryStep

Spec == Init /\ [][Next]_vars

(* Runtime reconfiguration among the other operations, at one instant *)
NextReconf ==
    \/ ReloadStart
    \/ ReloadFinish
    \/ DeliveryStep

SpecReconf == Init /\ [][NextReconf]_vars

(* The Failover Client on its own, with time passing *)
NextFailover ==
    \/ Tick
    \/ ClientConnect
    \/ ClientSendMessage
    \/ ClientSendConnected
    \/ ClientReturn
    \/ ClientDisconnect
    \/ MCConnectBegin
    \/ MCConnectTry
    \/ MSSend
    \/ FOConnect
    \/ FOSend

SpecFailover == Init /\ [][NextFailover]_vars

(* The service as started from two servers *)
InitConc == Init /\ configs = <<CfgA, CfgB>>

(* One SMTPClient on its own, built from the first server of that service *)
NextSingle ==
    \/ SCConnect
    \/ SCDisconnect
    \/ SCSend

SpecSingle == InitConc /\ [][NextSingle]_vars

(* The operations called from worker threads *)
WorkerStep ==
    \/ Invoke
    \/ Build
    \/ Enter
    \/ Send
    \/ ReadCurrent
    \/ Exit
    \/ Acquire
    \/ Load
    \/ DisconnectCurrent
    \/ SwapClient
    \/ SwapBuilder
    \/ ResetFailures
    \/ Probe
    \/ TestConnect
    \/ TestExit
    \/ Finish
    \/ Release

SpecConc == InitConc /\ [][WorkerStep]_vars

----------------------------------------------------------------------------
(* EmailService._validate_configuration_changes called on its own, as the  *)
(* validation tests call it: the old list is the service's, the new list   *)
(* is any list of at most MaxNewConfigs definitions.                        *)

NewConfigPool ==
    {CfgA, CfgB, CfgDupName, CfgDupKey, CfgBadPort, CfgNoPass, CfgNoHost,
     CfgBlankHost, CfgNoUser, CfgBlankUser, CfgBlankPass, CfgPortHigh,
     CfgNoTimeout, CfgNegRetries, CfgTlsAndSsl, CfgHostPort, CfgColonUser}

NewConfigLists == UNION {[1..n -> NewConfigPool] : n \in 0..MaxNewConfigs}

ValidateConfigurationChanges ==
    /\ helper.fn = "none"
    /\ \E new_configs \in NewConfigLists :
          helper' = [fn   |-> "_validate_configuration_changes",
                     args |-> new_configs,
                     ret  |-> _validate_configuration_changes(configs, new_configs)]
    /\ UNCHANGED <<pool, single, conc>>

SpecValidation == Init /\ [][ValidateConfigurationChanges]_vars

----------------------------------------------------------------------------
(* Properties *)

Range(s) == {s[i] : i \in 1..Len(s)}

(* The operation named has returned and nothing was called since *)
Returned(name) == pc = "idle" /\ pre.op = name /\ result.op = name

(* The send_email call met refused connections on the servers tried first, *)
(* then a server accepted the connection and the message                    *)
HigherRefusedLowerAccepted ==
    /\ Returned("send_email")
    /\ Len(oplog) >= 3
    /\ \A i \in 1..(Len(oplog) - 2) : oplog[i].kind = "connect" /\ ~oplog[i].ok
    /\ oplog[Len(oplog) - 1].kind = "connect" /\ oplog[Len(oplog) - 1].ok
    /\ oplog[Len(oplog)].kind = "send" /\ oplog[Len(oplog)].ok
    /\ oplog[Len(oplog)].key = oplog[Len(oplog) - 1].key

(* C1: when every higher-priority server refuses the connection and a      *)
(* lower-priority server accepts, send_email delivers through that server, *)
(* reports success with a message id, and names that server as the one     *)
(* used.                                                                    *)
C1_FailoverDelivers ==
    HigherRefusedLowerAccepted =>
        /\ result.success
        /\ result.message_id # ""
        /\ \E i \in 1..Len(configs) :
              /\ _get_server_key(configs[i]) = oplog[Len(oplog)].key
              /\ configs[i].name = result.smtp_server
              /\ \A j \in 1..(Len(oplog) - 2) :
                    \E h \in 1..(i - 1) : _get_server_key(configs[h]) = oplog[j].key

C1_Witness ==
    /\ HigherRefusedLowerAccepted
    /\ configs = <<CfgA, CfgB>>
    /\ oplog = <<Event("connect", smtp_client, CfgA, FALSE),
                 Event("connect", smtp_client, CfgB, TRUE),
                 Event("send", smtp_client, CfgB, TRUE)>>
    /\ result.success
    /\ result.smtp_server = "backup"

(* The reload reached its connection test and no server passed it *)
ConnectionTestFailed ==
    /\ Returned("reload_configuration")
    /\ \E i \in 1..Len(oplog) : oplog[i].kind = "probe"
    /\ \A i \in 1..Len(oplog) : oplog[i].kind = "probe" => ~oplog[i].ok

(* C2: when the connection test of a reload fails, the server list, the    *)
(* primary config, the client reference and the message builder are what   *)
(* they were before the call, the client built for the new list holds no   *)
(* connection, and the result is a failure at step "connection_test" with  *)
(* rollback_performed.                                                      *)
C2_RollbackRestores ==
    ConnectionTestFailed =>
        /\ configs = pre.configs
        /\ primary_config = pre.primary_config
        /\ smtp_client = pre.smtp_client
        /\ message_builder = pre.message_builder
        /\ \A x \in connections : x.owner = smtp_client
        /\ DOMAIN clients = {smtp_client}
        /\ ~result.success
        /\ result.step = "connection_test"
        /\ result.rollback_performed

C2_Witness ==
    /\ ConnectionTestFailed
    /\ load_smtp_configs(pre.env).configs # configs
    /\ \E i \in 1..Len(oplog) : oplog[i].kind = "connect" /\ oplog[i].ok
    /\ connections = {}
    /\ result.rollback_performed

DeclaresTwice(cs) ==
    \E i, j \in 1..Len(cs) :
        /\ i # j
        /\ \/ cs[i].name = cs[j].name
           \/ _get_server_key(cs[i]) = _get_server_key(cs[j])

RejectedStep(env) ==
    IF ~load_smtp_configs(env).ok THEN "configuration_loading"
    ELSE IF DeclaresTwice(load_smtp_configs(env).configs) THEN "configuration_validation"
    ELSE ""

(* C4: a reload whose environment fails to load returns step               *)
(* "configuration_loading", one whose new list fails validation (duplicate *)
(* names or keys) returns step "configuration_validation", and in both     *)
(* cases the server list, the primary config, the builder, the client      *)
(* reference, the client's connection and its failure records stay as they *)
(* were.                                                                    *)
C4_RejectedReloadChangesNothing ==
    [][(pc = "idle" /\ pre'.op = "reload_configuration" /\ RejectedStep(pre'.env) # "") =>
          /\ pc' = "idle"
          /\ result'.op = "reload_configuration"
          /\ ~result'.success
          /\ result'.step = RejectedStep(pre'.env)
          /\ UNCHANGED <<configs, primary_config, message_builder, smtp_client,
                         clients, connections>>]_vars

C4_Witness ==
    /\ Returned("reload_configuration")
    /\ result.step = "configuration_validation"
    /\ load_smtp_configs(pre.env).configs # configs
    /\ clients[smtp_client].failed_servers # {}
    /\ clients[smtp_client].current_config # NoCfg
    /\ Conn(smtp_client, clients[smtp_client].current_config) \in connections

(* The availability computation applied to a client at the present time *)
AvailableNow(id) == _get_available_servers(clients[id], now)

Excluded(id, cfg) ==
    /\ _get_server_key(cfg) \in clients[id].failed_servers
    /\ now - clients[id].last_failure_time[_get_server_key(cfg)] < 300

ExcludesExactly(id) ==
    \A i \in 1..Len(clients[id].configs) :
        clients[id].configs[i] \in Range(AvailableNow(id).available)
            <=> ~Excluded(id, clients[id].configs[i])

SortedByPriority(cs) ==
    \A i, j \in 1..Len(cs) : i < j => cs[i].priority >= cs[j].priority

(* C6 as stated: the available-server computation returns the servers in   *)
(* strictly descending priority order and leaves out exactly those in the  *)
(* failed set whose backoff has not run out.                                *)
C6_StrictlyDescending ==
    \A id \in DOMAIN clients :
        /\ ExcludesExactly(id)
        /\ \A i, j \in 1..Len(AvailableNow(id).available) :
              i < j => AvailableNow(id).available[i].priority
                          > AvailableNow(id).available[j].priority

(* C6 amended: the available-server computation returns, in the order of   *)
(* the client's list, exactly the servers that are not in the failed set   *)
(* with an unexpired backoff; over a list sorted by priority the result is *)
(* in descending order with equal priorities allowed (not strictly         *)
(* descending).                                                             *)
C6_ListOrder ==
    \A id \in DOMAIN clients :
        LET Eligible(cfg) == ~Excluded(id, cfg) IN
        /\ ExcludesExactly(id)
        /\ AvailableNow(id).available = SelectSeq(clients[id].configs, Eligible)
        /\ SortedByPriority(clients[id].configs)
              => SortedByPriority(AvailableNow(id).available)

C6_Witness ==
    /\ pc = "mc_try" /\ loc.idx = 1
    /\ Len(clients[loc.cm].configs) = 3
    /\ Len(loc.available) = 2
    /\ loc.available[1].priority > loc.available[2].priority
    /\ \E i \in 1..3 : /\ clients[loc.cm].configs[i] \notin Range(loc.available)
                       /\ Excluded(loc.cm, clients[loc.cm].configs[i])

(* The failed set is the N servers of the client's list, each failed more  *)
(* than 600 seconds ago                                                     *)
AllFailedLongAgo(id) ==
    /\ clients[id].configs # <<>>
    /\ clients[id].failed_servers = {_get_server_key(cfg) : cfg \in Range(clients[id].configs)}
    /\ \A i \in 1..Len(clients[id].configs) :
          LET k == _get_server_key(clients[id].configs[i])
          IN /\ k \in clients[id].failed_servers
             /\ now - clients[id].last_failure_time[k] > 600

(* C7: when the failed set holds all N servers of the list with failure    *)
(* times more than 600 seconds old, the availability computation leaves    *)
(* the failed set and the timestamp map empty and returns all N servers.   *)
C7_Amnesty ==
    \A id \in DOMAIN clients :
        AllFailedLongAgo(id) =>
            /\ AvailableNow(id).client.failed_servers = {}
            /\ DOMAIN AvailableNow(id).client.last_failure_time = {}
            /\ AvailableNow(id).available = clients[id].configs

C7_Witness ==
    /\ Returned("get_smtp_status")
    /\ result.server_status.total_servers >= 2
    /\ \A i \in 1..Len(result.server_status.servers) :
          /\ result.server_status.servers[i].is_failed
          /\ now - result.server_status.servers[i].last_failure > 600
    /\ result.server_status.available_servers = result.server_status.total_servers
    /\ clients[smtp_client].failed_servers = {}
    /\ DOMAIN clients[smtp_client].last_failure_time = {}

(* C8: after a successful reload the server list is the loaded list, the   *)
(* primary config is its first entry, the message builder is bound to that *)
(* entry, the client is a newly built one over the new list, and the       *)
(* client of before the call holds no connection.                          *)
C8_SwapOnSuccess ==
    (Returned("reload_configuration") /\ result.success) =>
        /\ configs = load_smtp_configs(pre.env).configs
        /\ primary_config = configs[1]
        /\ message_builder = configs[1]
        /\ smtp_client # pre.smtp_client
        /\ clients[smtp_client].configs = configs
        /\ pre.smtp_client \notin DOMAIN clients
        /\ \A x \in connections : x.owner # pre.smtp_client

C8_Witness ==
    /\ Returned("reload_configuration")
    /\ result.success
    /\ pre.current # NoCfg
    /\ pre.configs # configs
    /\ pre.primary_config # primary_config
    /\ message_builder = primary_config

(* C9: a reload whose environment loads the list already in use, with at   *)
(* least one server passing the connection test, succeeds and reports zero *)
(* changes: nothing added, removed or modified and every server unchanged. *)
C9_IdenticalReloadReportsNoChange ==
    (/\ Returned("reload_configuration")
     /\ load_smtp_configs(pre.env).ok
     /\ load_smtp_configs(pre.env).configs = pre.configs
     /\ ~ConnectionTestFailed) =>
        /\ result.success
        /\ result.changes.total_changes = 0
        /\ result.changes.servers_added = {}
        /\ result.changes.servers_removed = {}
        /\ result.changes.servers_modified = <<>>
        /\ Range(result.changes.servers_unchanged) = Names(pre.configs)

(* What the validation layers refuse, read off the request itself *)
InvalidRequest(req, primary) ==
    \/ ~req.to_valid
    \/ req.subject_len = 0
    \/ req.subject_len > 998
    \/ req.recipients = 0
    \/ req.recipients > 100
    \/ req.body_len > 10 * 1024 * 1024
    \/ req.from_email = "" /\ primary.from_email = ""
    \/ req.template_vars # {} /\ ~(req.referenced_vars \subseteq req.template_vars)

(* C10: a send_email call with an invalid request attempts no connection,  *)
(* authentication or send, and leaves the client's current connection,     *)
(* failed set and failure timestamps as they were.                         *)
C10_InvalidRequestNoNetwork ==
    [][(pc = "idle" /\ pre'.op = "send_email"
            /\ InvalidRequest(pre'.req, primary_config)) =>
          /\ pc' = "idle"
          /\ oplog' = <<>>
          /\ ~result'.success
          /\ clients' = clients
          /\ connections' = connections]_vars

C10_Witness ==
    /\ Returned("send_email")
    /\ InvalidRequest(pre.req, primary_config)
    /\ ~pre.req.to_valid
    /\ ~result.success
    /\ oplog = <<>>
    /\ clients[smtp_client].failed_servers # {}
    /\ clients[smtp_client].current_config # NoCfg
    /\ Conn(smtp_client, clients[smtp_client].current_config) \in connections

(* A request the tool layer accepts and the orchestrator's validation must *)
(* refuse, read off the request itself                                      *)
OrchestratorViolation(req, primary) ==
    /\ req.to_valid /\ req.subject_len > 0
    /\ \/ req.from_email = "" /\ primary.from_email = ""
       \/ req.template_vars # {} /\ ~(req.referenced_vars \subseteq req.template_vars)
       \/ req.recipients > 100
       \/ req.subject_len > 998
       \/ req.body_len > 10 * 1024 * 1024

(* C11: any violation found by the orchestrator's request validation       *)
(* produces a failure outcome whose step indicator is "validation".        *)
C11_ValidationStep ==
    (Returned("send_email") /\ OrchestratorViolation(pre.req, primary_config)) =>
        /\ ~result.success
        /\ result.step = "validation"

(* C12: a request whose template variables do not cover every variable     *)
(* referenced in subject and body fails with an error citing the missing   *)
(* variables, and no message is sent to any server.                        *)
C12_MissingVariableCited ==
    (/\ Returned("send_email")
     /\ pre.req.to_valid /\ pre.req.subject_len > 0
     /\ pre.req.template_vars # {}
     /\ ~(pre.req.referenced_vars \subseteq pre.req.template_vars)) =>
        /\ ~result.success
        /\ result.error # ""
        /\ \E i \in 1..Len(result.validation_errors) :
              /\ result.validation_errors[i].kind = "missing_template_variables"
              /\ result.validation_errors[i].variables
                    = pre.req.referenced_vars \ pre.req.template_vars
        /\ oplog = <<>>

C12_Witness ==
    /\ Returned("send_email")
    /\ pre.req.template_vars = {"name"}
    /\ pre.req.referenced_vars = {"name", "other"}
    /\ ~result.success
    /\ result.validation_errors = <<ValidationError("missing_template_variables", {"other"})>>
    /\ oplog = <<>>

(* A request that passes validation and message building, read off the     *)
(* request itself                                                           *)
Deliverable(req, primary) ==
    /\ ~InvalidRequest(req, primary)
    /\ req.template_vars # {} => req.template_syntax_ok

SendsAttempted == {i \in 1..Len(oplog) : oplog[i].kind = "send"}

(* send_email failed at the connection or send step *)
FailedOnTheWire ==
    /\ Returned("send_email")
    /\ Deliverable(pre.req, primary_config)
    /\ ~result.success

RefusalAnswered ==
    /\ pc \in {"ms_send", "fo_send"}
    /\ pc' # pc \/ loc' # loc
    /\ oplog' # oplog
    /\ loc'.reply \in {"some_refused", "all_refused"}

(* C14: a send that the server answers with any refused recipient fails,   *)
(* also when other recipients were accepted, and the Failover Client       *)
(* treats it as a send failure: the server is recorded as failed, its      *)
(* connection is closed, and the send does not count as delivered.         *)
C14_PartialAcceptanceFails ==
    [][RefusalAnswered =>
          /\ ~oplog'[Len(oplog')].ok
          /\ oplog'[Len(oplog')].key \in clients'[smtp_client].failed_servers
          /\ clients'[smtp_client].current_config = NoCfg
          /\ \A x \in connections' : x.key # oplog'[Len(oplog')].key
          /\ ~(pc' = "ms_done" /\ loc'.exc = "")]_vars

C14_Witness ==
    /\ pc = "fo_connect"
    /\ loc.reply = "some_refused"
    /\ oplog # <<>>
    /\ oplog[Len(oplog)].kind = "send" /\ ~oplog[Len(oplog)].ok
    /\ oplog[Len(oplog)].key \in clients[smtp_client].failed_servers
    /\ connections = {}

(* C15: connect() on a connection that is already connected and            *)
(* authenticated returns success at once: the session is the one it had,   *)
(* no transport is opened and no login is made.                            *)
C15_ConnectIdempotent ==
    [][(scres'.op = "connect" /\ sc._is_connected /\ sc._is_authenticated) =>
          /\ scres'.returned
          /\ sc' = sc
          /\ sessions' = sessions
          /\ sessions' = {sc.connection}
          /\ sclog' = <<>>]_vars

C15_Witness ==
    /\ scres.op = "connect" /\ scres.returned
    /\ sclog = <<>>
    /\ sc._is_connected /\ sc._is_authenticated
    /\ sessions = {sc.connection}

----------------------------------------------------------------------------
(* One server is declared before another in some environment *)
DeclaredBefore(a, b) ==
    \E env \in EnvSources : \E i, j \in 1..Len(env.numbered) :
        i < j /\ env.numbered[i] = a /\ env.numbered[j] = b

InPriorityOrder(cs) ==
    \A i, j \in 1..Len(cs) : i < j =>
        \/ cs[i].priority > cs[j].priority
        \/ cs[i].priority = cs[j].priority /\ DeclaredBefore(cs[i], cs[j])

(* C18 as stated: after any sequence of load, reconnect and switch_server  *)
(* operations (no operation in progress), the server list held by the      *)
(* orchestrator and the list held by the Failover Client are sorted by     *)
(* priority descending, with ties in declaration order.                    *)
C18_ListsStaySorted ==
    pc = "idle" =>
        /\ InPriorityOrder(configs)
        /\ InPriorityOrder(clients[smtp_client].configs)


----------------------------------------------------------------------------
(* The Failover Client state a status call may not touch *)
FailoverState(c) ==
    [current_config |-> c.current_config,
     failed_servers |-> c.failed_servers,
     last_failure_time |-> c.last_failure_time]

(* C19 as stated: in every reachable state, computing the status snapshot  *)
(* of a Failover Client leaves its current connection, its failed set and  *)
(* its failure timestamps as they were, expired failure records included.  *)
C19_StatusReadOnly ==
    \A id \in DOMAIN clients :
        FailoverState(get_server_status(clients[id], now).client)
            = FailoverState(clients[id])

----------------------------------------------------------------------------
(* The per-server probes and the Failover Client connects of the last call *)
ProbeEvents ==
    LET IsProbe(e) == e.kind = "probe" IN SelectSeq(oplog, IsProbe)

ConnectEvents ==
    LET IsConnect(e) == e.kind = "connect" IN SelectSeq(oplog, IsConnect)

(* C20: reconnect_smtp_servers probes with the current connection closed   *)
(* and the failed set and failure timestamps empty; when it has returned,  *)
(* the server list, the primary config, the message builder and the client *)
(* reference are those before the call, every configured server was        *)
(* probed once in list order, the Failover Client began its connect at the *)
(* first server of the list whatever had failed earlier, and the reported  *)
(* success is that of at least one probe.                                   *)
C20_ReconnectKeepsConfiguration ==
    /\ (op = "reconnect_smtp_servers" /\ pc = "tc_probe") =>
          /\ clients[smtp_client].current_config = NoCfg
          /\ clients[smtp_client].failed_servers = {}
          /\ DOMAIN clients[smtp_client].last_failure_time = {}
          /\ \A x \in connections : x.owner # smtp_client
    /\ Returned("reconnect_smtp_servers") =>
          /\ configs = pre.configs
          /\ primary_config = pre.primary_config
          /\ message_builder = pre.message_builder
          /\ smtp_client = pre.smtp_client
          /\ Len(ProbeEvents) = Len(configs)
          /\ \A i \in 1..Len(ProbeEvents) :
                ProbeEvents[i].key = _get_server_key(configs[i])
          /\ ConnectEvents # <<>>
          /\ ConnectEvents[1].key = _get_server_key(configs[1])
          /\ result.success <=> \E i \in 1..Len(ProbeEvents) : ProbeEvents[i].ok

(* A reconnect called while connected, with the first server of the list   *)
(* in the failed set: some probe failed, another succeeded, and the        *)
(* Failover Client connected to the first server.                           *)
C20_Witness ==
    /\ Returned("reconnect_smtp_servers")
    /\ pre.current # NoCfg
    /\ _get_server_key(configs[1]) \in pre.failed_servers
    /\ result.success
    /\ \E i \in 1..Len(ProbeEvents) : ~ProbeEvents[i].ok
    /\ ConnectEvents[1].ok
    /\ result.multi_server_success

----------------------------------------------------------------------------
(* The positions of a reconfiguration between taking the lock and giving   *)
(* it back: snapshot and load, disconnect, swap, test-connect, rollback    *)
LockedSection ==
    {"load", "disconnect", "swap", "swap_builder", "reset", "probe",
     "test_connect", "test_exit", "finish", "release"}

Inside(t) ==
    /\ workers[t].op \in {"reload_configuration", "reconnect_smtp_servers"}
    /\ workers[t].pc \in LockedSection

(* C16: at most one reload_configuration or reconnect_smtp_servers         *)
(* execution is inside its locked section at any time, and it is the one   *)
(* holding the lock; a second one called meanwhile waits at the lock, so   *)
(* the steps of the two never interleave.                                   *)
C16_OneReconfigurationAtATime ==
    \A t \in Workers :
        Inside(t) =>
            /\ config_lock.owner = t
            /\ \A u \in Workers \ {t} : ~Inside(u)

(* A reload has swapped the client and is about to test it while another   *)
(* reconfiguration, called meanwhile, waits at the lock                    *)
C16_Witness ==
    \E t, u \in Workers :
        /\ t # u
        /\ workers[t].op = "reload_configuration"
        /\ workers[t].pc = "test_connect"
        /\ workers[u].op \in {"reload_configuration", "reconnect_smtp_servers"}
        /\ workers[u].pc = "acquire"

(* A send that has entered the with block and has not left it *)
InFlight(t) ==
    workers[t].op = "send_email" /\ workers[t].cm # 0

(* A step of a reload_configuration running on another thread than t *)
ReloadSteps(t) ==
    \E u \in Workers \ {t} :
        /\ workers[u].op = "reload_configuration"
        /\ Inside(u)
        /\ workers'[u] # workers[u]

(* C17 as stated: a send_email in flight while reload_configuration runs   *)
(* builds with the message builder of, connects through, sends through and *)
(* reads the current server from one and the same Failover Client, and no  *)
(* step of the reload changes the client the send is using.                *)
C17_StableSnapshot ==
    [][\A t \in Workers :
          /\ (InFlight(t) /\ workers[t].pc = "exit" /\ workers[t].exc = ""
                /\ workers'[t].pc = "idle") =>
                /\ workers[t].via = workers[t].cm
                /\ workers[t].read_from = workers[t].cm
                /\ workers[t].builder = NewMessageBuilder(clients[workers[t].cm].configs)
          /\ (InFlight(t) /\ ReloadSteps(t)) =>
                clients'[workers[t].cm] = clients[workers[t].cm]]_vars

----------------------------------------------------------------------------
(* The servers of a list that do not carry the name, in list order *)
NamedOtherwise(cs, server_name) ==
    LET Other(c) == c.name # server_name IN SelectSeq(cs, Other)

----------------------------------------------------------------------------
(* C22 as stated: when switch_smtp_server(name) reports success, the       *)
(* current server of the Failover Client is the named server, whatever the *)
(* backoff state or the connectability of that server when the call was    *)
(* made.                                                                    *)
C22_SwitchedToNamedServer ==
    (Returned("switch_smtp_server") /\ result.success) =>
        /\ clients[smtp_client].current_config
              = FirstNamed(pre.configs, pre.server_name)
        /\ result.smtp_server = pre.server_name


----------------------------------------------------------------------------
(* C23: _validate_configuration_changes accepts a new configuration set    *)
(* exactly when the set is non-empty, every definition in it has a         *)
(* non-empty host, a port in 1..65535, a non-empty username and password,  *)
(* a positive timeout, a non-negative max_retries and not both STARTTLS    *)
(* and implicit TLS, no two definitions share a name, and no two share the *)
(* identity (host, port, username).                                         *)
IndividuallyValid(c) ==
    /\ c.host # ""
    /\ c.port \in 1..65535
    /\ c.username # ""
    /\ c.password # ""
    /\ c.timeout > 0
    /\ c.max_retries >= 0
    /\ ~(c.use_tls /\ c.use_ssl)

SameIdentity(a, b) ==
    a.host = b.host /\ a.port = b.port /\ a.username = b.username

WellFormedSet(cs) ==
    /\ cs # <<>>
    /\ \A i \in 1..Len(cs) : IndividuallyValid(cs[i])
    /\ \A i, j \in 1..Len(cs) : i # j => cs[i].name # cs[j].name
    /\ \A i, j \in 1..Len(cs) : i # j => ~SameIdentity(cs[i], cs[j])

C23_AcceptsExactlyWellFormedSets ==
    helper.fn = "_validate_configuration_changes" =>
        ((helper.ret = {}) <=> WellFormedSet(helper.args))

(* Two definitions with different identities whose formatted keys coincide *)
C23_DistinctIdentitiesRejected ==
    /\ helper.fn = "_validate_configuration_changes"
    /\ helper.args = <<CfgColonUser, CfgHostPort>>
    /\ helper.ret = {"duplicate_configuration"}
    /\ ~SameIdentity(CfgColonUser, CfgHostPort)


----------------------------------------------------------------------------
(* C24: send_message on the Failover Client connects first when there is   *)
(* no current connection.  When the send on the current connection fails,  *)
(* the current server enters the failed set with the current time and is   *)
(* disconnected; then the servers of the recomputed available list are     *)
(* tried in list order, each with a fresh connection (connect, then send). *)
(* The first one that succeeds becomes the current connection and leaves   *)
(* the failed set, and nothing is tried after it; when all of them fail    *)
(* the call fails.                                                          *)
FirstSendAt ==
    CHOOSE i \in 1..Len(oplog) :
        /\ oplog[i].kind = "send"
        /\ \A j \in 1..(i - 1) : oplog[j].kind # "send"

(* The attempts are the candidates in list order, a connect before every   *)
(* send, and nothing after the first delivery                               *)
RECURSIVE TriedInOrder(_, _)
TriedInOrder(attempts, candidates) ==
    IF attempts = <<>> THEN TRUE
    ELSE /\ candidates # <<>>
         /\ attempts[1].kind = "connect"
         /\ attempts[1].key = _get_server_key(candidates[1])
         /\ IF ~attempts[1].ok
               THEN TriedInOrder(Tail(attempts), Tail(candidates))
               ELSE /\ Len(attempts) >= 2
                    /\ attempts[2].kind = "send"
                    /\ attempts[2].key = attempts[1].key
                    /\ IF attempts[2].ok
                          THEN Len(attempts) = 2
                          ELSE TriedInOrder(SubSeq(attempts, 3, Len(attempts)),
                                            Tail(candidates))

CandidatesTried(attempts) ==
    Cardinality({i \in 1..Len(attempts) : attempts[i].kind = "connect"})

C24_Outcome ==
    (op = "send_message" /\ pc = "ms_done") =>
        LET id       == smtp_client
            s        == FirstSendAt
            attempts == SubSeq(oplog, s + 1, Len(oplog))
            last     == oplog[Len(oplog)]
        IN /\ IF pre.current = NoCfg
                 THEN /\ s >= 2
                      /\ oplog[s - 1].kind = "connect" /\ oplog[s - 1].ok
                      /\ oplog[s - 1].key = oplog[s].key
                 ELSE /\ s = 1
                      /\ oplog[1].key = _get_server_key(pre.current)
           /\ oplog[s].ok => (attempts = <<>> /\ loc.exc = "")
           /\ ~oplog[s].ok =>
                 /\ oplog[s].key \in clients[id].failed_servers
                 /\ \A i \in 1..Len(loc.available) :
                        _get_server_key(loc.available[i]) # oplog[s].key
                 /\ TriedInOrder(attempts, loc.available)
                 /\ IF last.kind = "send" /\ last.ok
                       THEN /\ loc.exc = ""
                            /\ _get_server_key(clients[id].current_config) = last.key
                            /\ clients[id].current_config \in Range(loc.available)
                            /\ last.key \notin clients[id].failed_servers
                            /\ [owner |-> id, key |-> last.key] \in connections
                       ELSE /\ loc.exc # ""
                            /\ CandidatesTried(attempts) = Len(loc.available)
                            /\ clients[id].current_config = NoCfg
                            /\ \A conn \in connections : conn.owner # id

C24_FailureStep ==
    (op = "send_message" /\ pc = "ms_send" /\ Len(oplog') = Len(oplog) + 1
        /\ ~oplog'[Len(oplog')].ok) =>
        LET id == smtp_client
            k  == oplog'[Len(oplog')].key
            NotFailed(cfg) == _get_server_key(cfg) \notin clients'[id].failed_servers
        IN /\ k = _get_server_key(clients[id].current_config)
           /\ k \in clients'[id].failed_servers
           /\ clients'[id].last_failure_time[k] = now
           /\ clients'[id].current_config = NoCfg
           /\ \A conn \in connections' : conn.owner # id
           /\ loc'.available = SelectSeq(clients[id].configs, NotFailed)

C24_SendFailsOver == []C24_Outcome /\ [][C24_FailureStep]_vars

(* The send on the current connection failed, the first candidate refused  *)
(* the connection and the second one delivered                              *)
C24_Witness ==
    /\ op = "send_message" /\ pc = "ms_done" /\ loc.exc = ""
    /\ Len(loc.available) = 2
    /\ Len(oplog) = FirstSendAt + 3
    /\ ~oplog[FirstSendAt].ok
    /\ ~oplog[FirstSendAt + 1].ok
    /\ oplog[Len(oplog)].kind = "send" /\ oplog[Len(oplog)].ok


----------------------------------------------------------------------------
(* C25: connect() on the Failover Client first disconnects the current     *)
(* connection, then tries the available servers in list order and stops at *)
(* the first success.  A candidate that fails enters the failed set with   *)
(* the current time and its attempt is closed.  On success the adopted     *)
(* server is current and has no failure record; when the available list is *)
(* empty or every candidate fails, the call fails and there is no current  *)
(* connection.                                                              *)
OwnedBy(id) == {conn \in connections : conn.owner = id}

C25_Outcome ==
    (op = "connect" /\ pc = "mc_done") =>
        LET id == loc.cm
            c  == clients[id]
            n  == Len(oplog)
            Candidate(cfg) == cfg \in Range(loc.available)
        IN /\ loc.available = SelectSeq(c.configs, Candidate)
           /\ n <= Len(loc.available)
           /\ \A i \in 1..n :
                 /\ oplog[i].kind = "connect"
                 /\ oplog[i].key = _get_server_key(loc.available[i])
                 /\ i < n => ~oplog[i].ok
           /\ IF n > 0 /\ oplog[n].ok
                 THEN /\ loc.exc = ""
                      /\ c.current_config = loc.available[n]
                      /\ oplog[n].key \notin c.failed_servers
                      /\ oplog[n].key \notin DOMAIN c.last_failure_time
                      /\ OwnedBy(id) = {Conn(id, loc.available[n])}
                 ELSE /\ loc.exc # ""
                      /\ n = Len(loc.available)
                      /\ c.current_config = NoCfg
                      /\ OwnedBy(id) = {}

C25_Steps ==
    /\ (op = "connect" /\ pc = "mc_begin" /\ pc' # "mc_begin") =>
          /\ clients'[loc.cm].current_config = NoCfg
          /\ \A conn \in connections' : conn.owner # loc.cm
    /\ (op = "connect" /\ pc = "mc_try" /\ Len(oplog') = Len(oplog) + 1
          /\ ~oplog'[Len(oplog')].ok) =>
          LET k == oplog'[Len(oplog')].key IN
          /\ k = _get_server_key(loc.available[loc.idx])
          /\ k \in clients'[loc.cm].failed_servers
          /\ clients'[loc.cm].last_failure_time[k] = now
          /\ \A conn \in connections' : conn.owner # loc.cm

C25_NoneAvailable ==
    /\ op = "connect" /\ pc = "mc_done" /\ loc.exc # ""
    /\ oplog = <<>>


----------------------------------------------------------------------------
(* What the last call on the single client did on the wire *)
WireEvents(kind) == {i \in 1..Len(sclog) : sclog[i].kind = kind}

SleepEvent(w) == w.kind = "sleep"

Waits == SelectSeq(sclog, SleepEvent)

RECURSIVE TwoToThe(_)
TwoToThe(k) == IF k = 0 THEN 1 ELSE 2 * TwoToThe(k - 1)

(* The last connect call ran the loop and met these outcomes *)
ConnectMet(outcomes) ==
    /\ scres.op = "connect"
    /\ scres.script # <<>>
    /\ \A i \in 1..Len(scres.script) : scres.script[i] \in outcomes

SingleDisconnected ==
    sc.connection = 0 /\ ~sc._is_connected /\ ~sc._is_authenticated

(* Every transport that was opened is closed before the next open, the    *)
(* next wait or the end of the call                                        *)
ClosedAfterEachFailure ==
    \A i \in WireEvents("open") : sclog[i].ok =>
        \E j \in (i + 1)..Len(sclog) :
            /\ sclog[j].kind = "quit"
            /\ \A m \in (i + 1)..(j - 1) : sclog[m].kind \notin {"open", "sleep"}

TransportLevel == {"open_failed", "tls_failed", "login_timeout", "login_disconnected"}

(* C26: when every attempt of SMTPClient.connect fails with a transport-   *)
(* level error (connection refused, timeout, TLS negotiation failure,      *)
(* unexpected disconnect), exactly max_retries + 1 attempts are made, the  *)
(* wait before retry k+1 is 2^k seconds with no wait after the last        *)
(* attempt, the connection is disconnected after each failure, and the     *)
(* call ends with a connection error.                                       *)
C26_RetriesWithBackoff ==
    ConnectMet(TransportLevel) =>
        /\ Cardinality(WireEvents("open")) = sc.config.max_retries + 1
        /\ Len(Waits) = sc.config.max_retries
        /\ \A k \in 1..Len(Waits) : Waits[k].seconds = TwoToThe(k - 1)
        /\ sclog[Len(sclog)].kind # "sleep"
        /\ ClosedAfterEachFailure
        /\ SingleDisconnected /\ sessions = {}
        /\ ~scres.returned /\ scres.raised = "ConnectionError"

(* The server closed the connection during login at the first attempt *)
C26_DisconnectDuringLogin ==
    /\ ConnectMet(TransportLevel)
    /\ scres.script = <<"login_disconnected">>
    /\ Cardinality(WireEvents("open")) = 1
    /\ sc.config.max_retries = 3

(* C27: on an authentication failure SMTPClient.connect does not retry:    *)
(* whatever is left of the retry budget, no transport is opened and no     *)
(* login is attempted afterwards, the connection is disconnected, and the  *)
(* error is raised at once.                                                 *)
C27_AuthFailureNotRetried ==
    (ConnectMet(AttemptOutcomes) /\ scres.script[Len(scres.script)] = "auth_failed") =>
        /\ Cardinality(WireEvents("open")) = Len(scres.script)
        /\ \E n \in WireEvents("login") :
              /\ ~sclog[n].ok
              /\ \A m \in (n + 1)..Len(sclog) : sclog[m].kind \in {"quit", "close"}
              /\ n < Len(sclog)
        /\ SingleDisconnected /\ sessions = {}
        /\ ~scres.returned /\ scres.raised # ""

C27_Witness ==
    /\ scres.op = "connect"
    /\ scres.script = <<"open_failed", "auth_failed">>
    /\ Len(scres.script) <= sc.config.max_retries
    /\ Cardinality(WireEvents("login")) = 1
    /\ SingleDisconnected

(* C28: an authentication failure in SMTPClient.connect reaches the caller *)
(* as a ValueError, a kind different from the ConnectionError raised when  *)
(* the transport attempts are exhausted.                                    *)
C28_AuthErrorKind ==
    /\ (ConnectMet(AttemptOutcomes)
          /\ scres.script[Len(scres.script)] = "auth_failed") =>
            scres.raised = "ValueError"
    /\ (ConnectMet(TransportErrors)
          /\ Len(scres.script) = sc.config.max_retries + 1) =>
            scres.raised = "ConnectionError"

(* C29: after any call of SMTPClient.connect, returned or raised, the      *)
(* client is connected and authenticated or disconnected (no handle, not   *)
(* connected, not authenticated); connect never returns success without    *)
(* having authenticated; no connected-but-unauthenticated state shows      *)
(* between operations.                                                      *)
C29_NoHalfOpenState ==
    /\ \/ sc.connection # 0 /\ sc._is_connected /\ sc._is_authenticated
       \/ SingleDisconnected
    /\ (scres.op = "connect" /\ scres.returned) =>
          /\ sc._is_connected /\ sc._is_authenticated
          /\ sclog # <<>> => sclog[Len(sclog)] = Wire("login", TRUE, 0)
    /\ (scres.op = "connect" /\ ~scres.returned) =>
          /\ SingleDisconnected
          /\ scres.raised # ""

(* connect raised after the login was refused on an open transport whose   *)
(* graceful close failed                                                    *)
C29_Witness ==
    /\ scres.op = "connect" /\ ~scres.returned
    /\ scres.script = <<"auth_failed">>
    /\ \E i \in WireEvents("quit") : ~sclog[i].ok
    /\ SingleDisconnected

(* C30: SMTPClient.disconnect never raises and always ends disconnected    *)
(* with the state cleared, whether the client was connected, already       *)
(* disconnected, or the graceful close failed and the forced close was     *)
(* used or failed too.                                                      *)
C30_DisconnectAlwaysClears ==
    scres.op = "disconnect" =>
        /\ scres.returned /\ scres.raised = ""
        /\ SingleDisconnected
        /\ sessions = {}

(* The graceful close and the forced close both failed *)
C30_Witness ==
    /\ scres.op = "disconnect"
    /\ sclog = <<Wire("quit", FALSE, 0), Wire("close", FALSE, 0)>>
    /\ SingleDisconnected


----------------------------------------------------------------------------
(* C31: after any sequence of connect, send (with failover) and disconnect *)
(* calls made one at a time on one Failover Client, at most one connection *)
(* created by that client is live, and it is the current one: every        *)
(* connection that was tried and failed, or that was replaced, has been    *)
(* disconnected.                                                            *)
C31_OnlyCurrentIsLive ==
    pc = "idle" =>
        LET c == clients[smtp_client] IN
        OwnedBy(smtp_client) = IF c.current_config = NoCfg
                                  THEN {}
                                  ELSE {Conn(smtp_client, c.current_config)}

(* A send found a connection, failed on it, failed on the first candidate  *)
(* after connecting to it, and delivered through the second                 *)
C31_Witness ==
    /\ Returned("send_message") /\ result.success
    /\ pre.current # NoCfg
    /\ Len(oplog) = 5
    /\ oplog[2].kind = "connect" /\ oplog[2].ok
    /\ oplog[3].kind = "send" /\ ~oplog[3].ok
    /\ Cardinality(OwnedBy(smtp_client)) = 1
    /\ _get_server_key(clients[smtp_client].current_config) = oplog[5].key


----------------------------------------------------------------------------
(* A send that has connected through the with statement and has not yet    *)
(* called send_message                                                      *)
Connected(t) ==
    InFlight(t) /\ workers[t].pc = "send"

(* A step of a send_email running on another thread than t *)
OtherSendSteps(t) ==
    \E u \in Workers \ {t} :
        /\ workers[u].op = "send_email"
        /\ workers'[u] # workers[u]

(* C32 as stated: when two send_email calls run concurrently through the   *)
(* same Failover Client, neither observes a current connection cleared or  *)
(* closed by the other between its own connect and send, and no connection *)
(* is left open without being the current one.                              *)
C32_AdoptReplaceIsCritical ==
    [][/\ \A t \in Workers :
            (Connected(t) /\ OtherSendSteps(t)) =>
                /\ clients'[workers[t].cm].current_config
                       = clients[workers[t].cm].current_config
                /\ Conn(workers[t].cm, clients[workers[t].cm].current_config)
                       \in connections'
       /\ \A conn \in connections' :
            /\ conn.owner \in DOMAIN clients'
            /\ clients'[conn.owner].current_config # NoCfg
            /\ conn = Conn(conn.owner, clients'[conn.owner].current_config)]_vars


----------------------------------------------------------------------------
(* The positions from which a thread's next step talks to a server:        *)
(* connect and authenticate, send, disconnect, test-connect probe           *)
NetworkSteps ==
    {"enter", "send", "exit", "disconnect", "reset", "probe", "test_connect",
     "test_exit"}

(* C33 as stated: blocking network operations (connect, authenticate,      *)
(* send, disconnect, test-connect probes) are never performed while the    *)
(* configuration lock is held; during reload_configuration and             *)
(* reconnect_smtp_servers the lock covers only bookkeeping.                 *)
C33_NoNetworkUnderLock ==
    [][\A t \in Workers :
          (workers[t].pc \in NetworkSteps /\ workers'[t] # workers[t]) =>
              config_lock.owner # t]_vars


----------------------------------------------------------------------------
(* The send_email call that returned had reached its connection step *)
ReachedConnectionStep ==
    /\ Returned("send_email")
    /\ \/ result.success
       \/ result.raised
       \/ result.step \in {"smtp_connection", "message_sending", "email_sending"}

(* C34: after a send_email call that reached the connection step has       *)
(* returned, with success or failure, the Failover Client holds no live    *)
(* connection: there is no current client or config, and a status snapshot *)
(* taken then reports no current server.                                    *)
C34_SendLeavesNoConnection ==
    ReachedConnectionStep =>
        LET c == clients[smtp_client] IN
        /\ c.current_config = NoCfg
        /\ get_current_server(c) = NoCfg
        /\ OwnedBy(smtp_client) = {}
        /\ get_server_status(c, now).status.current_server = ""
        /\ result.has_status => result.server_status.current_server = ""

(* The send found the client connected by an earlier reconnect and         *)
(* delivered the message                                                    *)
C34_Witness ==
    /\ ReachedConnectionStep
    /\ result.success
    /\ pre.current # NoCfg
    /\ oplog # <<>>
    /\ oplog[Len(oplog)].kind = "send" /\ oplog[Len(oplog)].ok


----------------------------------------------------------------------------
(* Every configured server is in the failed set and failed less than       *)
(* failure_backoff_time ago                                                 *)
AllBackedOff(c, t) ==
    \A i \in 1..Len(c.configs) :
        LET k == _get_server_key(c.configs[i]) IN
        /\ k \in c.failed_servers
        /\ k \in DOMAIN c.last_failure_time
        /\ t - c.last_failure_time[k] < 300

(* C35: when every configured server is in the failed set with its         *)
(* backoff unexpired, connect() on the Failover Client attempts no         *)
(* connection, the amnesty step changes nothing, and the call fails for    *)
(* want of an available server; the pool stays in that state until time    *)
(* passes or reconnect_smtp_servers is called.                              *)
C35_Steps ==
    /\ (pc = "mc_begin" /\ pc' # "mc_begin" /\ AllBackedOff(clients[loc.cm], now)) =>
          /\ pc' = "mc_done"
          /\ loc'.exc = "ConnectionError"
          /\ oplog' = oplog
          /\ clients'[loc.cm].failed_servers = clients[loc.cm].failed_servers
          /\ clients'[loc.cm].last_failure_time = clients[loc.cm].last_failure_time
          /\ clients'[loc.cm].current_config = NoCfg
    /\ (AllBackedOff(clients[smtp_client], now) /\ now' = now
          /\ pc \notin {"mc_try", "ms_send", "fo_connect", "fo_send"}
          /\ Range(clients'[smtp_client].configs) \subseteq Range(clients[smtp_client].configs)
          /\ ~(pc = "idle" /\ pre'.op = "reconnect_smtp_servers")) =>
          AllBackedOff(clients'[smtp_client], now')
    /\ (op = "send_email" /\ pc = "mc_done" /\ pc' = "idle"
          /\ AllBackedOff(clients[smtp_client], now)) =>
          /\ ~result'.success
          /\ result'.error_type = "connection_error"

C35_AllBackedOffFailsFast == [][C35_Steps]_vars

(* The servers of the list have pairwise distinct identity keys *)
DistinctKeys(cfgs) ==
    \A i, j \in 1..Len(cfgs) :
        i # j => _get_server_key(cfgs[i]) # _get_server_key(cfgs[j])

(* The attempts of the running call on the server with this key *)
AttemptsOn(k) ==
    {i \in 1..Len(oplog) : oplog[i].kind = "connect" /\ oplog[i].key = k}

(* A send on the only server of the pool failed and something followed it *)
RetriedAfterFailedSend ==
    \E i \in 1..Len(oplog) :
        oplog[i].kind = "send" /\ ~oplog[i].ok /\ i < Len(oplog)

(* C36 as stated: within one send_email call on a pool whose servers have   *)
(* distinct identity keys, every server is attempted at most once, so that  *)
(* the call ends after at most as many attempts as there are servers, and   *)
(* a one-server pool never retries a failed send.                           *)
C36_AttemptedAtMostOnce ==
    (op = "send_email" /\ DistinctKeys(clients[smtp_client].configs)) =>
        LET cfgs == clients[smtp_client].configs IN
        /\ \A i \in 1..Len(cfgs) :
              Cardinality(AttemptsOn(_get_server_key(cfgs[i]))) <= 1
        /\ CandidatesTried(oplog) <= Len(cfgs)
        /\ Len(cfgs) = 1 => ~RetriedAfterFailedSend


(* The step that computes the failover candidates after a failed send *)
FailoverListed ==
    pc = "ms_send" /\ op = "send_email" /\ pc' = "fo_connect"

(* C36: within one send_email call on a pool whose servers have distinct    *)
(* identity keys, the failover candidates leave out the server whose send   *)
(* failed and every server that failed earlier in the call unless the       *)
(* backoff window has run out since its failure; a server is attempted at   *)
(* most once while connecting and at most once during failover, and a       *)
(* one-server pool never retries a failed send.                             *)
C36_State ==
    (op = "send_email" /\ DistinctKeys(clients[smtp_client].configs)) =>
        LET cfgs == clients[smtp_client].configs IN
        /\ \A i, j \in 1..Len(oplog) :
              (/\ i < j
               /\ oplog[i].kind = "connect" /\ oplog[j].kind = "connect"
               /\ oplog[i].key = oplog[j].key)
              => \E s \in (i + 1)..(j - 1) :
                    /\ oplog[s].kind = "send"
                    /\ \A r \in 1..(s - 1) : oplog[r].kind # "send"
        /\ CandidatesTried(oplog) <= 2 * Len(cfgs) - 1
        /\ Len(cfgs) = 1 => ~RetriedAfterFailedSend

C36_Step ==
    (FailoverListed /\ DistinctKeys(clients[smtp_client].configs)) =>
        LET c == clients[smtp_client] IN
        \A n \in 1..Len(loc'.available) :
            LET k == _get_server_key(loc'.available[n]) IN
            /\ k # _get_server_key(c.current_config)
            /\ AttemptsOn(k) # {} =>
                  /\ k \in c.failed_servers
                  /\ now - FailureTimeOf(c, k) >= failure_backoff_time

C36_AttemptedOncePerBackoff == []C36_State /\ [][C36_Step]_vars

(* A server refused the connection, the next one accepted it and failed the *)
(* send, and failover went on to a third server without returning to either *)
C36_Witness ==
    /\ Returned("send_email")
    /\ DistinctKeys(clients[smtp_client].configs)
    /\ Len(oplog) >= 4
    /\ oplog[1].kind = "connect" /\ ~oplog[1].ok
    /\ oplog[2].kind = "connect" /\ oplog[2].ok
    /\ oplog[3].kind = "send" /\ ~oplog[3].ok
    /\ oplog[4].kind = "connect"
    /\ oplog[4].key \notin {oplog[1].key, oplog[2].key}
    /\ CandidatesTried(oplog) = 3


(* A server is asked to send the message of the running send_email call *)
AskedToSend ==
    /\ op = "send_email"
    /\ pc \in {"ms_send", "fo_send"}
    /\ Len(oplog') = Len(oplog) + 1
    /\ oplog'[Len(oplog')].kind = "send"

(* The sends of the running call that came before *)
EarlierSends == {i \in 1..Len(oplog) : oplog[i].kind = "send"}

(* C37 as stated: within one send_email call, once a server has accepted    *)
(* the message for at least one recipient no other server is asked to send  *)
(* it: a server is asked to send only when the send before it, if any, was  *)
(* accepted for no recipient.                                               *)
C37_AcceptedByAtMostOneServer ==
    [][(AskedToSend /\ EarlierSends # {}) => ~AcceptedSomeone(loc.reply)]_vars

(* C37: within one send_email call the message is accepted in full by at    *)
(* most one server: a send succeeds only when the server accepted every     *)
(* recipient, and once a send has succeeded no server is attempted again.   *)
C37_State ==
    op = "send_email" =>
        \A i \in 1..Len(oplog) :
            (oplog[i].kind = "send" /\ oplog[i].ok) => i = Len(oplog)

C37_Step ==
    AskedToSend =>
        /\ \A i \in EarlierSends : ~oplog[i].ok
        /\ oplog'[Len(oplog')].ok <=> loc'.reply = "accepted"

C37_AcceptedInFullByAtMostOneServer == []C37_State /\ [][C37_Step]_vars

(* A server refused some recipient, failover went on and the next server    *)
(* accepted the message for every recipient                                 *)
C37_Witness ==
    /\ Returned("send_email")
    /\ result.success
    /\ Len(oplog) = 4
    /\ oplog[2].kind = "send" /\ ~oplog[2].ok
    /\ oplog[4].kind = "send" /\ oplog[4].ok
    /\ oplog[4].key # oplog[2].key


(* C38: between operations the current server of the Failover Client has    *)
(* no failure record: its identity key is neither in the failed set nor in  *)
(* the failure timestamps, and no entry of a status snapshot is both        *)
(* is_current and is_failed.                                                *)
C38_CurrentNeverFailed ==
    pc = "idle" =>
        LET c == clients[smtp_client]
            snapshot == get_server_status(c, now).status
        IN /\ c.current_config # NoCfg =>
                 /\ _get_server_key(c.current_config) \notin c.failed_servers
                 /\ _get_server_key(c.current_config) \notin DOMAIN c.last_failure_time
           /\ \A n \in 1..Len(snapshot.servers) :
                 ~(snapshot.servers[n].is_current /\ snapshot.servers[n].is_failed)

(* The client holds the server it failed over to, and the server whose send *)
(* failed is on record                                                      *)
C38_Witness ==
    /\ Returned("send_message")
    /\ result.success
    /\ clients[smtp_client].current_config # NoCfg
    /\ clients[smtp_client].failed_servers # {}
    /\ Len(oplog) >= 2
    /\ \E i \in 1..Len(oplog) : oplog[i].kind = "send" /\ ~oplog[i].ok
    /\ oplog[Len(oplog)].key = _get_server_key(clients[smtp_client].current_config)
    /\ \E n \in 1..Len(clients[smtp_client].configs) :
          get_server_status(clients[smtp_client], now).status.servers[n].is_current


(* The entries of a snapshot that carry the flag *)
EntriesFailed(snapshot) ==
    {n \in 1..Len(snapshot.servers) : snapshot.servers[n].is_failed}

EntriesAvailable(snapshot) ==
    {n \in 1..Len(snapshot.servers) : snapshot.servers[n].is_available}

(* C39: in every status snapshot of a pool with distinct identity keys the  *)
(* aggregate counts agree with the per-server entries: failed_servers is    *)
(* the number of entries with is_failed, available_servers is the number of *)
(* entries with is_available, and total_servers is their sum.               *)
C39_CountsAgreeWithEntries ==
    (pc = "idle" /\ DistinctKeys(clients[smtp_client].configs)) =>
        LET snapshot == get_server_status(clients[smtp_client], now).status IN
        /\ snapshot.failed_servers = Cardinality(EntriesFailed(snapshot))
        /\ snapshot.available_servers = Cardinality(EntriesAvailable(snapshot))
        /\ snapshot.total_servers =
              snapshot.available_servers + snapshot.failed_servers


(* C40: after any sequence of reload_configuration, reconnect_smtp_servers  *)
(* and switch_server calls on a service built from a priority-sorted list,  *)
(* the primary config is the first entry of the current server list and     *)
(* the message builder is bound to that config.                             *)
C40_PrimaryIsFirstOfList ==
    pc = "idle" =>
        /\ primary_config = configs[1]
        /\ message_builder = primary_config

====
